---- MODULE Spec2Model ----
(***************************************************************************)
(* tzbundler: the tzdata text parser (parse_zone_files), the metadata      *)
(* merger (merge_metadata_with_zones) and the CLDR windowsZones mapper     *)
(* (parse_windows_zones_xml) of src/tzbundler/make_tz_bundle.py.           *)
(*                                                                         *)
(* A raw text line is a sequence of characters.  A character is written as *)
(* a string; a string of several letters (such as "Zone") abbreviates that *)
(* run of non-whitespace characters.  Whitespace characters are " " and    *)
(* "\t".  Fields are obtained from a raw line by Split, as str.split does. *)
(***************************************************************************)
EXTENDS Integers, Sequences, FiniteSets, TLC

VARIABLES
    tzdata,        \* per zone file: the lines read from it so far
    fidx,          \* position in zone_files of the file being processed
    isOpen,        \* inside the "with fpath.open()" block of file fidx
    current_zone,  \* the zone continuation lines belong to, or None
    zones,         \* dict name -> Zone
    rules,         \* dict rule name -> list of rule dicts
    links,         \* dict alias -> target, in insertion order
    li,            \* position of the link resolver in links.items()
    pc,            \* where the run is
    lastlog,       \* level of the log record emitted by the last step
    xml,           \* windowsZones.xml: the mapZone elements read so far
    iana_to_windows,
    windows_to_iana,
    wpc,           \* where parse_windows_zones_xml is
    metadata,      \* main: the metadata map of parse_zone1970_tab
    version,       \* main: the version string of parse_version
    read,          \* main: the input file(s) the last step read
    output_dir,    \* tzdata/: combined.json and combined.sqlite
    mpc            \* where main is

vars == <<tzdata, fidx, isOpen, current_zone, zones, rules, links, li, pc,
          lastlog, xml, iana_to_windows, windows_to_iana, wpc,
          metadata, version, read, output_dir, mpc>>

parseVars == <<tzdata, fidx, isOpen, current_zone, zones, rules, links, li,
               pc, lastlog>>

winVars == <<xml, iana_to_windows, windows_to_iana, wpc>>

mainVars == <<metadata, version, read, output_dir, mpc>>

\* ------------------------------------------------------------------ bounds

MaxLines == 3      \* lines read over all zone files of one run
MaxElems == 3      \* mapZone elements of windowsZones.xml

\* ------------------------------------------------------- Python primitives

None == "<None>"

WS == {" ", "\t", "\n"}

zone_files == <<"africa", "antarctica", "asia", "australasia", "europe",
                "northamerica", "southamerica", "etcetera", "backward",
                "backzone">>

\* str.strip(): drop leading and trailing whitespace characters
RECURSIVE LStrip(_)
LStrip(s) == IF s # <<>> /\ Head(s) \in WS THEN LStrip(Tail(s)) ELSE s

RECURSIVE RStrip(_)
RStrip(s) ==
    IF s # <<>> /\ s[Len(s)] \in WS THEN RStrip(SubSeq(s, 1, Len(s) - 1)) ELSE s

Strip(s) == RStrip(LStrip(s))

\* str.split(): the maximal runs of non-whitespace characters
RECURSIVE SplitRec(_, _, _)
SplitRec(s, cur, acc) ==
    IF s = <<>> THEN (IF cur = "" THEN acc ELSE Append(acc, cur))
    ELSE IF Head(s) \in WS
         THEN SplitRec(Tail(s), "", IF cur = "" THEN acc ELSE Append(acc, cur))
         ELSE SplitRec(Tail(s), cur \o Head(s), acc)

Split(s) == SplitRec(s, "", <<>>)

\* mutant: the tokens are glued together without a separator
RECURSIVE JoinNoSpace(_)
JoinNoSpace(toks) ==
    IF toks = <<>> THEN "" ELSE toks[1] \o JoinNoSpace(Tail(toks))

\* " ".join(toks)
RECURSIVE Join(_)
Join(toks) ==
    IF toks = <<>> THEN ""
    ELSE IF Len(toks) = 1 THEN toks[1]
    ELSE toks[1] \o " " \o Join(Tail(toks))

\* parts[n:] of a list (n is a 0-based Python index)
Slice(parts, n) == SubSeq(parts, n + 1, Len(parts))

\* truth value of an Optional[str]
Truthy(s) == s # None /\ s # ""

\* ------------------------------------------------------------- data classes

EmptyDict == [k \in {} |-> None]

\* dict assignment d[k] = v
DictPut(d, k, v) == [x \in (DOMAIN d) \cup {k} |-> IF x = k THEN v ELSE d[x]]

\* @dataclass Transition, with the rule_name attribute parse_zone_line adds
Transition(to_utc, offset, abbr, rule_name) ==
    [to_utc |-> to_utc, offset |-> offset, abbr |-> abbr, rule_name |-> rule_name]

\* @dataclass Zone; latitude and longitude are character sequences
Zone(name, aliases) ==
    [name |-> name, country_code |-> "", latitude |-> <<>>, longitude |-> <<>>,
     comment |-> "", transitions |-> <<>>, aliases |-> aliases,
     win_names |-> <<>>]

\* ------------------------------------------------------- parse_zone_files

\* parse_zone_line: parts[1] .. parts[4] raise IndexError on a short list
ZoneLineRaises(parts) == Len(parts) < 5

parse_zone_line(parts) ==
    IF ZoneLineRaises(parts) THEN [raised |-> TRUE]
    ELSE LET to_utc == IF Len(parts) > 5 THEN Join(Slice(parts, 5)) ELSE None
         IN  [raised |-> FALSE,
              name |-> parts[2],
              transition |-> Transition(IF Truthy(to_utc) THEN to_utc ELSE "",
                                        parts[3], parts[5], parts[4])]

\* parse_rule_line: parts[1] .. parts[8] raise IndexError on a short list,
\* before the rule table is touched
RuleLineRaises(parts) == Len(parts) < 9

\* mutant: the rule set is created before the fields are read
parse_rule_line_SetFirst(parts, rs) ==
    LET rs1 == IF Len(parts) >= 2 /\ parts[2] \notin DOMAIN rs
               THEN DictPut(rs, parts[2], <<>>) ELSE rs
    IN  IF RuleLineRaises(parts) THEN [raised |-> TRUE, rules |-> rs1]
        ELSE LET name == parts[2]
                 rule == [from |-> parts[3], to |-> parts[4], type |-> parts[5],
                          in |-> parts[6], on |-> parts[7], at |-> parts[8],
                          save |-> parts[9],
                          letter |-> IF Len(parts) > 9 THEN parts[10] ELSE ""]
             IN  [raised |-> FALSE,
                  rules |-> DictPut(rs1, name, Append(rs1[name], rule))]

\* mutant: the rule is put at the head of its set
parse_rule_line_Prepends(parts, rs) ==
    IF RuleLineRaises(parts) THEN [raised |-> TRUE, rules |-> rs]
    ELSE LET name == parts[2]
             rule == [from |-> parts[3], to |-> parts[4], type |-> parts[5],
                      in |-> parts[6], on |-> parts[7], at |-> parts[8],
                      save |-> parts[9],
                      letter |-> IF Len(parts) > 9 THEN parts[10] ELSE ""]
             old == IF name \in DOMAIN rs THEN rs[name] ELSE <<>>
         IN  [raised |-> FALSE, rules |-> DictPut(rs, name, <<rule>> \o old)]

\* the rule table is returned as the call leaves it, also when it raises
parse_rule_line(parts, rs) ==
    IF RuleLineRaises(parts) THEN [raised |-> TRUE, rules |-> rs]
    ELSE LET name == parts[2]
             rule == [from |-> parts[3], to |-> parts[4], type |-> parts[5],
                      in |-> parts[6], on |-> parts[7], at |-> parts[8],
                      save |-> parts[9],
                      letter |-> IF Len(parts) > 9 THEN parts[10] ELSE ""]
             old == IF name \in DOMAIN rs THEN rs[name] ELSE <<>>
         IN  [raised |-> FALSE, rules |-> DictPut(rs, name, Append(old, rule))]

\* mutant: every Link record is kept, as in a list of pairs
LinkPutKeepsAll(ls, alias, target) ==
    Append(ls, [alias |-> alias, target |-> target])

\* mutant: a known key moves to the end of the dict
LinkPutMovesToEnd(ls, alias, target) ==
    SelectSeq(ls, LAMBDA l : l.alias # alias)
        \o <<[alias |-> alias, target |-> target]>>

\* links[alias] = target: a known key keeps its position in the dict
LinkPut(ls, alias, target) ==
    IF \E i \in 1..Len(ls) : ls[i].alias = alias
    THEN [i \in 1..Len(ls) |->
             IF ls[i].alias = alias THEN [alias |-> alias, target |-> target]
             ELSE ls[i]]
    ELSE Append(ls, [alias |-> alias, target |-> target])

\* mutant: the transition is inserted at the head of the list
AppendTransitionFront(zs, name, transition) ==
    [zs EXCEPT ![name].transitions = <<transition>> \o @]

\* zones[name].transitions.append(transition)
AppendTransition(zs, name, transition) ==
    [zs EXCEPT ![name].transitions = Append(@, transition)]

\* mutant: a dangling target gets a placeholder without the alias
AttachAliasBarePlaceholder(zs, alias, target) ==
    IF target \in DOMAIN zs
    THEN [zs EXCEPT ![target].aliases = Append(@, alias)]
    ELSE DictPut(zs, target, Zone(target, <<>>))

\* mutant: the alias also becomes a zone of its own
AttachAliasAsZone(zs, alias, target) ==
    LET zs1 == IF target \in DOMAIN zs
               THEN [zs EXCEPT ![target].aliases = Append(@, alias)]
               ELSE DictPut(zs, target, Zone(target, <<alias>>))
    IN  IF alias \in DOMAIN zs1 THEN zs1
        ELSE DictPut(zs1, alias, Zone(alias, <<>>))

\* mutant: the target always gets a fresh zone entry
AttachAliasReplacesZone(zs, alias, target) ==
    DictPut(zs, target, Zone(target, <<alias>>))

\* attach one alias to its target zone (one iteration of the resolver loop)
AttachAlias(zs, alias, target) ==
    IF target \in DOMAIN zs
    THEN [zs EXCEPT ![target].aliases = Append(@, alias)]
    ELSE DictPut(zs, target, Zone(target, <<alias>>))

\* mutant: a Link line attaches its alias as soon as it is read
LinkLineEager(st, alias, target) ==
    [st EXCEPT !.links = LinkPut(st.links, alias, target),
               !.zones = AttachAlias(st.zones, alias, target)]

\* mutant: a Link line ends the block of the current zone
LinkLineEndsBlock(st, alias, target) ==
    [st EXCEPT !.links = LinkPut(st.links, alias, target),
               !.current_zone = None]

\* the body of the Link branch: the pair is only recorded
LinkLine(st, alias, target) ==
    [st EXCEPT !.links = LinkPut(st.links, alias, target)]

\* mutant: only blank lines are skipped
IsSkippedBlankOnly(raw) ==
    LET line == Strip(raw)
    IN  line = <<>> \/ Split(line) = <<>>

\* the line is skipped before classification: blank, or a comment
IsSkipped(raw) ==
    LET line == Strip(raw)
    IN  line = <<>> \/ line[1] = "#" \/ Split(line) = <<>>

Keywords == {"Zone", "Rule", "Link"}

\* the branch taken for a Link line
IsLinkBranch(parts) == parts[1] = "Link" /\ Len(parts) >= 3

\* the branch taken for a continuation line
IsContinuationBranch(parts, cz) == parts[1] \notin Keywords /\ Truthy(cz)

\* One iteration of the line loop: the state after the line, and the level of
\* the log record it emits.
LineEffect(raw, zs, rs, ls, cz) ==
    LET same == [zones |-> zs, rules |-> rs, links |-> ls, current_zone |-> cz,
                 log |-> "none"]
        parts == Split(Strip(raw))
    IN  IF IsSkipped(raw) THEN same
        ELSE IF parts[1] = "Zone" THEN
            LET r == parse_zone_line(parts)
            IN  IF r.raised THEN [same EXCEPT !.log = "warning"]
                ELSE LET zs1 == IF r.name \in DOMAIN zs THEN zs
                                ELSE DictPut(zs, r.name, Zone(r.name, <<>>))
                     IN  [same EXCEPT
                            !.current_zone = r.name,
                            !.zones = AppendTransition(zs1, r.name, r.transition)]
        ELSE IF parts[1] = "Rule" THEN
            LET r == parse_rule_line(parts, rs)
            IN  [same EXCEPT !.rules = r.rules,
                             !.log = IF r.raised THEN "warning" ELSE "none"]
        ELSE IF IsLinkBranch(parts) THEN
            LinkLine(same, parts[3], parts[2])
        ELSE IF IsContinuationBranch(parts, cz) THEN
            LET r == parse_zone_line(<<"Zone", cz>> \o parts)
            IN  IF r.raised THEN [same EXCEPT !.log = "warning"]
                ELSE [same EXCEPT
                        !.zones = AppendTransition(zs, r.name, r.transition)]
        ELSE same

\* the file loop is over: every name of zone_files has been visited
AllFilesDone == fidx = Len(zone_files) /\ ~isOpen

\* ------------------------------------------------ merge_metadata_with_zones

\* mutant: the rule name is kept as parsed
CleanRuleNameKeepsDash(t) ==
    [t EXCEPT !.rule_name = IF Truthy(t.rule_name) THEN t.rule_name ELSE None]

\* the rule_name clean-up of one transition
CleanRuleName(t) ==
    [t EXCEPT !.rule_name = IF Truthy(t.rule_name) /\ t.rule_name # "-"
                            THEN t.rule_name ELSE None]

\* mutant: the split point is rounded up
MergeZoneCeilMid(zone, md) ==
    LET z1 == IF zone.name \in DOMAIN md
              THEN LET meta == md[zone.name]
                       coords == meta.coordinates
                       mid == (Len(coords) + 1) \div 2
                       z0 == [zone EXCEPT !.country_code = meta.country_code,
                                          !.comment = meta.comment]
                   IN  IF coords # <<>> /\ Len(coords) >= 4
                       THEN [z0 EXCEPT !.latitude = SubSeq(coords, 1, mid),
                                       !.longitude = SubSeq(coords, mid + 1, Len(coords))]
                       ELSE z0
              ELSE zone
    IN  [z1 EXCEPT !.transitions =
            [i \in 1..Len(z1.transitions) |-> CleanRuleName(z1.transitions[i])]]

\* mutant: the comment is appended to the one the zone has
MergeZoneAppendsComment(zone, md) ==
    LET z1 == IF zone.name \in DOMAIN md
              THEN LET meta == md[zone.name]
                       coords == meta.coordinates
                       mid == Len(coords) \div 2
                       z0 == [zone EXCEPT !.country_code = meta.country_code,
                                          !.comment = zone.comment \o meta.comment]
                   IN  IF coords # <<>> /\ Len(coords) >= 4
                       THEN [z0 EXCEPT !.latitude = SubSeq(coords, 1, mid),
                                       !.longitude = SubSeq(coords, mid + 1, Len(coords))]
                       ELSE z0
              ELSE zone
    IN  [z1 EXCEPT !.transitions =
            [i \in 1..Len(z1.transitions) |-> CleanRuleName(z1.transitions[i])]]

\* the body of the loop over zones.items()
MergeZone(zone, md) ==
    LET z1 == IF zone.name \in DOMAIN md
              THEN LET meta == md[zone.name]
                       coords == meta.coordinates
                       mid == Len(coords) \div 2
                       z0 == [zone EXCEPT !.country_code = meta.country_code,
                                          !.comment = meta.comment]
                   IN  IF coords # <<>> /\ Len(coords) >= 4
                       THEN [z0 EXCEPT !.latitude = SubSeq(coords, 1, mid),
                                       !.longitude = SubSeq(coords, mid + 1, Len(coords))]
                       ELSE z0
              ELSE zone
    IN  [z1 EXCEPT !.transitions =
            [i \in 1..Len(z1.transitions) |-> CleanRuleName(z1.transitions[i])]]

\* mutant: the loop runs over the metadata records and the zones
merge_metadata_with_zones_AddsZones(zs, md) ==
    [n \in (DOMAIN zs) \cup (DOMAIN md) |->
        MergeZone(IF n \in DOMAIN zs THEN zs[n] ELSE Zone(n, <<>>), md)]

merge_metadata_with_zones(zs, md) ==
    [n \in DOMAIN zs |-> MergeZone(zs[n], md)]

\* ----------------------------------------------------------------- inputs

\* the zone files that may exist in input_dir (every other one is missing)
MayExist == {"backward", "backzone"}

\* the raw lines a zone file may hold
RawLines == {
    <<"Zone", " ", "Y", " ", "8:30", "\t", "-", " ", "KST", " ", "1948", " ", " ", "Aug">>,
    <<"Zone", " ", "Z", " ", "2", " ", "R", " ", "D">>,
    <<"Zone", " ", "Z", " ", "2">>,
    <<" ", "9:00", " ", "-", " ", "KST">>,
    <<"4", " ", "R", " ", "%s", " ", "1950", " ">>,
    <<"5", " ", "R">>,
    <<"Link", " ", "Y", " ", "A">>,
    <<"Link", " ", "T", " ", "A">>,
    <<"Link", " ", "T", " ", "B">>,
    <<"Rule", " ", "R", " ", "1948", " ", "only", " ", "-", " ", "Sep", " ",
      "10", " ", "0:00", " ", "1:00", " ", "D">>,
    <<"Rule", " ", "R", " ", "1949", " ", "max", " ", "-", " ", "Oct", " ",
      "1", " ", "2:00", " ", "0">>,
    <<"Rule", " ", "R", " ", "1948">>,
    <<" ", "#", " ", "Zone", " ", "Y">>,
    <<" ", "\t">>
}

\* the metadata maps parse_zone1970_tab may return
MetadataSet == {
    EmptyDict,
    [n \in {"Y", "Q"} |->
        IF n = "Y"
        THEN [country_code |-> "KR",
              coordinates |-> <<"+", "3", "7", "3", "3", "+", "1", "2", "6", "5", "8">>,
              comment |-> ""]
        ELSE [country_code |-> "QQ", coordinates |-> <<"+", "1">>,
              comment |-> "nowhere"]],
    [n \in {"T"} |-> [country_code |-> "TT", coordinates |-> <<"+", "1", "-">>,
                      comment |-> "short"]]
}

\* ---------------------------------------------------------------- actions

\* no input file has been read yet
NothingRead == [file |-> "none"]

\* the output directory before the first run: neither file exists
NoOutput == [json |-> <<>>, sqlite |-> <<>>]

LinesRead == LET RECURSIVE Sum(_)
                 Sum(i) == IF i = 0 THEN 0 ELSE Len(tzdata[i]) + Sum(i - 1)
             IN  Sum(Len(zone_files))

Init ==
    /\ tzdata = [i \in 1..Len(zone_files) |-> <<>>]
    /\ fidx = 0
    /\ isOpen = FALSE
    /\ current_zone = None
    /\ zones = EmptyDict
    /\ rules = EmptyDict
    /\ links = <<>>
    /\ li = 0
    /\ pc = "files"
    /\ lastlog = "none"
    /\ xml = <<>>
    /\ iana_to_windows = EmptyDict
    /\ windows_to_iana = EmptyDict
    /\ wpc = "idle"
    /\ metadata = EmptyDict
    /\ version = None
    /\ read = NothingRead
    /\ output_dir = NoOutput
    /\ mpc = "start"

\* mutant: current_zone is initialised once, before the file loop
OpenFileKeepsZone ==
    /\ pc = "files" /\ ~isOpen /\ fidx < Len(zone_files)
    /\ zone_files[fidx + 1] \in MayExist
    /\ fidx' = fidx + 1
    /\ isOpen' = TRUE
    /\ lastlog' = "info"
    /\ UNCHANGED <<tzdata, current_zone, zones, rules, links, li, pc>>
    /\ UNCHANGED winVars
    /\ UNCHANGED mainVars

\* for fname in zone_files: the file exists and is opened
OpenFile ==
    /\ pc = "files" /\ ~isOpen /\ fidx < Len(zone_files)
    /\ zone_files[fidx + 1] \in MayExist
    /\ fidx' = fidx + 1
    /\ isOpen' = TRUE
    /\ current_zone' = None
    /\ lastlog' = "info"
    /\ UNCHANGED <<tzdata, zones, rules, links, li, pc>>
    /\ UNCHANGED winVars
    /\ UNCHANGED mainVars

\* for fname in zone_files: the file does not exist
MissingFile ==
    /\ pc = "files" /\ ~isOpen /\ fidx < Len(zone_files)
    /\ fidx' = fidx + 1
    /\ lastlog' = "warning"
    /\ UNCHANGED <<tzdata, isOpen, current_zone, zones, rules, links, li, pc>>
    /\ UNCHANGED winVars
    /\ UNCHANGED mainVars

\* for line_num, line in enumerate(f, 1): one line of the open file
ReadLine ==
    /\ pc = "files" /\ isOpen
    /\ LinesRead < MaxLines
    /\ \E raw \in RawLines :
          LET e == LineEffect(raw, zones, rules, links, current_zone)
          IN  /\ tzdata' = [tzdata EXCEPT ![fidx] = Append(@, raw)]
              /\ zones' = e.zones
              /\ rules' = e.rules
              /\ links' = e.links
              /\ current_zone' = e.current_zone
              /\ lastlog' = e.log
    /\ UNCHANGED <<fidx, isOpen, li, pc>>
    /\ UNCHANGED winVars
    /\ UNCHANGED mainVars

\* the open file is exhausted
EndOfFile ==
    /\ pc = "files" /\ isOpen
    /\ isOpen' = FALSE
    /\ lastlog' = "none"
    /\ UNCHANGED <<tzdata, fidx, current_zone, zones, rules, links, li, pc>>
    /\ UNCHANGED winVars
    /\ UNCHANGED mainVars

\* the file loop ends and the alias loop starts
StartLinks ==
    /\ pc = "files" /\ AllFilesDone
    /\ pc' = "links"
    /\ li' = 1
    /\ lastlog' = "info"
    /\ UNCHANGED <<tzdata, fidx, isOpen, current_zone, zones, rules, links>>
    /\ UNCHANGED winVars
    /\ UNCHANGED mainVars

\* for alias, target in links.items(): one iteration
ResolveLink ==
    /\ pc = "links" /\ li <= Len(links)
    /\ zones' = AttachAlias(zones, links[li].alias, links[li].target)
    /\ lastlog' = IF links[li].target \in DOMAIN zones THEN "none" ELSE "warning"
    /\ li' = li + 1
    /\ UNCHANGED <<tzdata, fidx, isOpen, current_zone, rules, links, pc>>
    /\ UNCHANGED winVars
    /\ UNCHANGED mainVars

\* return zones, rules
ReturnParsed ==
    /\ pc = "links" /\ li > Len(links)
    /\ pc' = "parsed"
    /\ lastlog' = "info"
    /\ UNCHANGED <<tzdata, fidx, isOpen, current_zone, zones, rules, links, li>>
    /\ UNCHANGED winVars
    /\ UNCHANGED mainVars

\* main, step 6: merge_metadata_with_zones(zones, metadata)
Merge ==
    /\ pc = "parsed"
    /\ \E md \in MetadataSet :
          /\ metadata' = md
          /\ zones' = merge_metadata_with_zones(zones, md)
    /\ pc' = "merged"
    /\ lastlog' = "info"
    /\ UNCHANGED <<tzdata, fidx, isOpen, current_zone, rules, links, li>>
    /\ UNCHANGED winVars
    /\ UNCHANGED <<version, read, output_dir, mpc>>

Next ==
    \/ OpenFile
    \/ MissingFile
    \/ ReadLine
    \/ EndOfFile
    \/ StartLinks
    \/ ResolveLink
    \/ ReturnParsed
    \/ Merge

Spec == Init /\ [][Next]_vars

\* ================================================= parse_windows_zones_xml

\* d[k].append(v), creating the list when k is not a key
ListAdd(d, k, v) ==
    DictPut(d, k, Append(IF k \in DOMAIN d THEN d[k] ELSE <<>>, v))

\* mutant: only the Windows -> IANA direction is recorded
AddPairOneWay(m, windows_name, iana_name) ==
    [m EXCEPT !.windows_to_iana = ListAdd(@, windows_name, iana_name)]

\* the body of "for iana_name in iana_names"
AddPair(m, windows_name, iana_name) ==
    [iana_to_windows |-> ListAdd(m.iana_to_windows, iana_name, windows_name),
     windows_to_iana |-> ListAdd(m.windows_to_iana, windows_name, iana_name)]

RECURSIVE AddPairs(_, _, _)
AddPairs(m, windows_name, iana_names) ==
    IF iana_names = <<>> THEN m
    ELSE AddPairs(AddPair(m, windows_name, Head(iana_names)), windows_name,
                  Tail(iana_names))

\* mutant: every mapZone element is taken, whatever its territory
IsGlobalAnyTerritory(e) == TRUE

\* the XPath predicate [@territory="001"]
IsGlobal(e) == e.territory = "001"

\* one mapZone element of the document, in document order
MapZoneEffect(e, m) ==
    IF ~IsGlobal(e) THEN m
    ELSE LET windows_name == e.other
             iana_names == Split(e.type)
         IN  IF ~Truthy(windows_name) \/ iana_names = <<>> THEN m
             ELSE AddPairs(m, windows_name, iana_names)

\* the mapZone elements windowsZones.xml may hold; other is None when the
\* attribute is absent, type is the attribute text (empty when absent)
MapZones == {
    [territory |-> "001", other |-> "W1", type |-> <<"Y">>],
    [territory |-> "001", other |-> "W2", type |-> <<"Y", " ", "Z">>],
    [territory |-> "KR", other |-> "W1", type |-> <<"Q">>],
    [territory |-> "001", other |-> None, type |-> <<"Z">>],
    [territory |-> "001", other |-> "W3", type |-> <<" ">>]
}

\* if not xml_path.exists(): return the empty maps
WinMissing ==
    /\ wpc = "idle"
    /\ wpc' = "done"
    /\ lastlog' = "warning"
    /\ UNCHANGED <<xml, iana_to_windows, windows_to_iana>>
    /\ UNCHANGED <<tzdata, fidx, isOpen, current_zone, zones, rules, links, li, pc>>
    /\ UNCHANGED mainVars

\* ET.parse raises ParseError: logged, the empty maps are returned
WinParseError ==
    /\ wpc = "idle"
    /\ wpc' = "done"
    /\ lastlog' = "error"
    /\ UNCHANGED <<xml, iana_to_windows, windows_to_iana>>
    /\ UNCHANGED <<tzdata, fidx, isOpen, current_zone, zones, rules, links, li, pc>>
    /\ UNCHANGED mainVars

\* ET.parse succeeds
WinParsed ==
    /\ wpc = "idle"
    /\ wpc' = "loop"
    /\ lastlog' = "info"
    /\ UNCHANGED <<xml, iana_to_windows, windows_to_iana>>
    /\ UNCHANGED <<tzdata, fidx, isOpen, current_zone, zones, rules, links, li, pc>>
    /\ UNCHANGED mainVars

\* the next mapZone element of the document
WinElement ==
    /\ wpc = "loop"
    /\ Len(xml) < MaxElems
    /\ \E e \in MapZones :
          LET m == MapZoneEffect(e, [iana_to_windows |-> iana_to_windows,
                                     windows_to_iana |-> windows_to_iana])
          IN  /\ xml' = Append(xml, e)
              /\ iana_to_windows' = m.iana_to_windows
              /\ windows_to_iana' = m.windows_to_iana
    /\ lastlog' = "none"
    /\ UNCHANGED wpc
    /\ UNCHANGED <<tzdata, fidx, isOpen, current_zone, zones, rules, links, li, pc>>
    /\ UNCHANGED mainVars

\* return iana_to_windows, windows_to_iana
WinReturn ==
    /\ wpc = "loop"
    /\ wpc' = "done"
    /\ lastlog' = "info"
    /\ UNCHANGED <<xml, iana_to_windows, windows_to_iana>>
    /\ UNCHANGED <<tzdata, fidx, isOpen, current_zone, zones, rules, links, li, pc>>
    /\ UNCHANGED mainVars

NextWin ==
    \/ WinMissing
    \/ WinParseError
    \/ WinParsed
    \/ WinElement
    \/ WinReturn

\* parse_windows_zones_xml on its own, over every document of MapZones
SpecWin == Init /\ [][NextWin]_vars

\* ======================================== parse_zone_files as one function

\* parse_zone_files run on given file contents: the line loop of one file
RECURSIVE RunLines(_, _)
RunLines(lines, st) ==
    IF lines = <<>> THEN st
    ELSE RunLines(Tail(lines),
                  LineEffect(Head(lines), st.zones, st.rules, st.links,
                             st.current_zone))

\* ... the file loop, over files 1..f
RECURSIVE RunFiles(_, _)
RunFiles(files, f) ==
    IF f = 0
    THEN [zones |-> EmptyDict, rules |-> EmptyDict, links |-> <<>>,
          current_zone |-> None, log |-> "none"]
    ELSE RunLines(files[f], [RunFiles(files, f - 1) EXCEPT !.current_zone = None])

\* ... and the alias loop
RECURSIVE RunLinks(_, _, _)
RunLinks(zs, ls, i) ==
    IF i > Len(ls) THEN zs
    ELSE RunLinks(AttachAlias(zs, ls[i].alias, ls[i].target), ls, i + 1)

RunParse(files) ==
    LET st == RunFiles(files, Len(zone_files))
    IN  [zones |-> RunLinks(st.zones, st.links, 1), rules |-> st.rules]

\* ===================================================================== main

\* ---- the files of input_dir (tzdata_raw/)

\* a file that does not exist
Missing == [exists |-> FALSE, wellformed |-> FALSE, content |-> <<>>]

\* a file with the given content: lines, characters or mapZone elements
File(content) == [exists |-> TRUE, wellformed |-> TRUE, content |-> content]

\* a windowsZones.xml on which ET.parse raises ParseError
Unparsable == [exists |-> TRUE, wellformed |-> FALSE, content |-> <<>>]

\* "".join(chars): the string made of the characters
RECURSIVE Concat(_)
Concat(chars) == IF chars = <<>> THEN "" ELSE Head(chars) \o Concat(Tail(chars))

\* ---- parse_version

parse_version(f) == IF f.exists THEN Concat(Strip(f.content)) ELSE "unknown"

\* ---- parse_zone_files, over the ten files of the directory

\* mutant: a missing file discards what the earlier files gave
RECURSIVE ReadZoneFilesMissingResets(_, _)
ReadZoneFilesMissingResets(dir, f) ==
    LET none == [zones |-> EmptyDict, rules |-> EmptyDict, links |-> <<>>,
                 current_zone |-> None, log |-> "none"]
    IN  IF f = 0 THEN none
        ELSE IF ~dir[f].exists THEN [none EXCEPT !.log = "warning"]
        ELSE RunLines(dir[f].content,
                      [ReadZoneFilesMissingResets(dir, f - 1)
                          EXCEPT !.current_zone = None])

\* for fname in zone_files: a missing file is logged and passed over, an
\* existing one is read line by line with current_zone reset
RECURSIVE ReadZoneFiles(_, _)
ReadZoneFiles(dir, f) ==
    IF f = 0
    THEN [zones |-> EmptyDict, rules |-> EmptyDict, links |-> <<>>,
          current_zone |-> None, log |-> "none"]
    ELSE LET st == ReadZoneFiles(dir, f - 1)
         IN  IF ~dir[f].exists THEN [st EXCEPT !.log = "warning"]
             ELSE RunLines(dir[f].content, [st EXCEPT !.current_zone = None])

parse_zone_files(dir) ==
    LET st == ReadZoneFiles(dir, Len(zone_files))
    IN  [zones |-> RunLinks(st.zones, st.links, 1), rules |-> st.rules]

\* ---- parse_zone1970_tab

\* str.split("\t"): the fields between tab characters, empty ones included
RECURSIVE SplitTabRec(_, _, _)
SplitTabRec(s, cur, acc) ==
    IF s = <<>> THEN Append(acc, cur)
    ELSE IF Head(s) = "\t" THEN SplitTabRec(Tail(s), <<>>, Append(acc, cur))
    ELSE SplitTabRec(Tail(s), Append(cur, Head(s)), acc)

SplitTab(s) == SplitTabRec(s, <<>>, <<>>)

\* one line of zone1970.tab
TabLineEffect(line, md) ==
    IF (line # <<>> /\ Head(line) = "#") \/ Strip(line) = <<>> THEN md
    ELSE LET parts == SplitTab(Strip(line))
         IN  IF Len(parts) < 3 THEN md
             ELSE DictPut(md, Concat(parts[3]),
                          [country_code |-> Concat(parts[1]),
                           coordinates |-> parts[2],
                           comment |-> IF Len(parts) > 3 THEN Concat(parts[4])
                                       ELSE ""])

RECURSIVE ReadTabLines(_, _)
ReadTabLines(lines, md) ==
    IF lines = <<>> THEN md
    ELSE ReadTabLines(Tail(lines), TabLineEffect(Head(lines), md))

\* mutant: a missing zone1970.tab yields a record for every known zone
parse_zone1970_tab_Defaults(f) ==
    IF ~f.exists
    THEN [n \in {"Y"} |-> [country_code |-> "", coordinates |-> <<>>,
                           comment |-> ""]]
    ELSE ReadTabLines(f.content, EmptyDict)

parse_zone1970_tab(f) ==
    IF ~f.exists THEN EmptyDict ELSE ReadTabLines(f.content, EmptyDict)

\* ---- parse_windows_zones_xml, over the whole document

RECURSIVE MapZoneElements(_, _)
MapZoneElements(doc, m) ==
    IF doc = <<>> THEN m
    ELSE MapZoneElements(Tail(doc), MapZoneEffect(Head(doc), m))

\* mutant: findall(".//mapZone"), without the territory predicate
RECURSIVE MapZoneElementsAnyTerritory(_, _)
MapZoneElementsAnyTerritory(doc, m) ==
    IF doc = <<>> THEN m
    ELSE LET e == Head(doc)
             iana_names == Split(e.type)
         IN  MapZoneElementsAnyTerritory(
                 Tail(doc),
                 IF ~Truthy(e.other) \/ iana_names = <<>> THEN m
                 ELSE AddPairs(m, e.other, iana_names))

parse_windows_zones_xml_AnyTerritory(f) ==
    LET empty == [iana_to_windows |-> EmptyDict, windows_to_iana |-> EmptyDict]
    IN  IF ~f.exists THEN empty
        ELSE IF ~f.wellformed THEN empty
        ELSE MapZoneElementsAnyTerritory(f.content, empty)

parse_windows_zones_xml(f) ==
    LET empty == [iana_to_windows |-> EmptyDict, windows_to_iana |-> EmptyDict]
    IN  IF ~f.exists THEN empty
        ELSE IF ~f.wellformed THEN empty
        ELSE MapZoneElements(f.content, empty)

\* ---- add_windows_names_to_zones

\* mutant: the scan does not stop at the first mapped alias
RECURSIVE ScanAliasesNoBreak(_, _, _)
ScanAliasesNoBreak(aliases, i2w, win_names) ==
    IF aliases = <<>> THEN win_names
    ELSE ScanAliasesNoBreak(Tail(aliases), i2w,
                            IF Head(aliases) \in DOMAIN i2w
                            THEN i2w[Head(aliases)] ELSE win_names)

\* for alias in zone.aliases: the first mapped alias gives the names
RECURSIVE ScanAliases(_, _, _)
ScanAliases(aliases, i2w, win_names) ==
    IF aliases = <<>> THEN win_names
    ELSE IF Head(aliases) \in DOMAIN i2w THEN i2w[Head(aliases)]
    ELSE ScanAliases(Tail(aliases), i2w, win_names)

add_windows_names_to_zones(zs, i2w) ==
    [n \in DOMAIN zs |->
        IF n \in DOMAIN i2w THEN [zs[n] EXCEPT !.win_names = i2w[n]]
        ELSE [zs[n] EXCEPT !.win_names = ScanAliases(zs[n].aliases, i2w, @)]]

\* ---- write_combined_json

JsonTransition(t) ==
    [to_utc |-> t.to_utc, offset |-> t.offset, abbr |-> t.abbr,
     rule_name |-> t.rule_name]

\* mutant: the zone object is written without its Windows names
JsonZoneNoWinNames(zone) ==
    [country_code |-> zone.country_code,
     coordinates |-> zone.latitude \o zone.longitude,
     comment |-> zone.comment,
     transitions |-> [i \in 1..Len(zone.transitions) |->
                         JsonTransition(zone.transitions[i])],
     aliases |-> zone.aliases,
     win_names |-> <<>>]

JsonZone(zone) ==
    [country_code |-> zone.country_code,
     coordinates |-> zone.latitude \o zone.longitude,
     comment |-> zone.comment,
     transitions |-> [i \in 1..Len(zone.transitions) |->
                         JsonTransition(zone.transitions[i])],
     aliases |-> zone.aliases,
     win_names |-> zone.win_names]

\* the object dumped to combined.json (the file is opened with "w")
write_combined_json(zs, rs, w2i, ver) ==
    [timezones |-> [n \in DOMAIN zs |-> JsonZone(zs[n])],
     rules |-> rs,
     windows_mapping |-> w2i,
     version |-> ver]

\* ---- write_combined_sqlite

\* A table without a key is a bag of rows: row -> number of copies.
BagAdd(b1, b2) ==
    [r \in (DOMAIN b1) \cup (DOMAIN b2) |->
        (IF r \in DOMAIN b1 THEN b1[r] ELSE 0)
      + (IF r \in DOMAIN b2 THEN b2[r] ELSE 0)]

\* the (key, index) positions of a dict of lists
Positions(d) == UNION {{<<k, i>> : i \in 1..Len(d[k])} : k \in DOMAIN d}

\* the entries (key, list element) of a dict of lists, as a bag
Entries(d) ==
    [e \in {<<p[1], d[p[1]][p[2]]>> : p \in Positions(d)} |->
        Cardinality({p \in Positions(d) : <<p[1], d[p[1]][p[2]]>> = e})]

TransitionRow(name, t) ==
    [zone_name |-> name, to_utc |-> t.to_utc, offset |-> t.offset,
     abbr |-> t.abbr, rule_name |-> t.rule_name]

RuleRow(name, rule) ==
    [rule_name |-> name, from_year |-> rule.from, to_year |-> rule.to,
     type |-> rule.type, in_month |-> rule.in, on_day |-> rule.on,
     at_time |-> rule.at, save |-> rule.save, letter |-> rule.letter]

MappingRow(windows_name, iana_name) ==
    [windows_name |-> windows_name, iana_name |-> iana_name]

ZoneRow(zone) ==
    [name |-> zone.name, country_code |-> zone.country_code,
     latitude |-> zone.latitude, longitude |-> zone.longitude,
     comment |-> zone.comment]

\* the rows one run inserts into transitions, rules and windows_mapping
TransitionRows(zs) ==
    LET E == Entries([n \in DOMAIN zs |-> zs[n].transitions])
    IN  [r \in {TransitionRow(e[1], e[2]) : e \in DOMAIN E} |->
            E[CHOOSE e \in DOMAIN E : TransitionRow(e[1], e[2]) = r]]

RuleRows(rs) ==
    LET E == Entries(rs)
    IN  [r \in {RuleRow(e[1], e[2]) : e \in DOMAIN E} |->
            E[CHOOSE e \in DOMAIN E : RuleRow(e[1], e[2]) = r]]

MappingRows(w2i) ==
    LET E == Entries(w2i)
    IN  [r \in {MappingRow(e[1], e[2]) : e \in DOMAIN E} |->
            E[CHOOSE e \in DOMAIN E : MappingRow(e[1], e[2]) = r]]

\* the database sqlite3.connect gives when the file does not exist, after the
\* four CREATE TABLE IF NOT EXISTS statements
EmptyDb ==
    [zones |-> EmptyDict, transitions |-> EmptyDict, rules |-> EmptyDict,
     windows_mapping |-> EmptyDict]

\* db is the database found at output_path: INSERT OR REPLACE into zones (keyed
\* by name), plain INSERT into the three other tables
write_combined_sqlite(db, zs, rs, w2i) ==
    [zones |-> [n \in (DOMAIN db.zones) \cup (DOMAIN zs) |->
                   IF n \in DOMAIN zs THEN ZoneRow(zs[n]) ELSE db.zones[n]],
     transitions |-> BagAdd(db.transitions, TransitionRows(zs)),
     rules |-> BagAdd(db.rules, RuleRows(rs)),
     windows_mapping |-> BagAdd(db.windows_mapping, MappingRows(w2i))]

\* the database at output_path when the run opens it
OpenDb(out) == IF out.sqlite = <<>> THEN EmptyDb ELSE out.sqlite[1]

\* ---- one whole run of main on given input files

RunMain(out, in) ==
    LET ver == parse_version(in.version)
        p == parse_zone_files(in.zone_files)
        md == parse_zone1970_tab(in.tab)
        m == parse_windows_zones_xml(in.xml)
        zs == add_windows_names_to_zones(merge_metadata_with_zones(p.zones, md),
                                         m.iana_to_windows)
    IN  [json |-> <<write_combined_json(zs, p.rules, m.windows_to_iana, ver)>>,
         sqlite |-> <<write_combined_sqlite(OpenDb(out), zs, p.rules,
                                            m.windows_to_iana)>>]

\* ---- the input files a run of main may find

MaxItems == 2      \* lines or elements per input file of one run of main

SeqsUpTo(S, n) == UNION {[1..k -> S] : k \in 0..n}

\* the lines the zone files of a run of main may hold
DirLines == {
    <<"Zone", " ", "Y", " ", "8:30", "\t", "-", " ", "KST", " ", "1948", " ", " ", "Aug">>,
    <<" ", "9:00", " ", "-", " ", "KST">>,
    <<"Link", " ", "T", " ", "A">>,
    <<"Link", " ", "T", " ", "B">>,
    <<"Rule", " ", "R", " ", "1949", " ", "max", " ", "-", " ", "Oct", " ",
      "1", " ", "2:00", " ", "0">>
}

ZoneFileSet == {Missing} \cup {File(t) : t \in SeqsUpTo(DirLines, MaxItems)}

\* the ten zone files: only those of MayExist may exist
ZoneDirs ==
    {[f \in 1..Len(zone_files) |->
         IF zone_files[f] = "backward" THEN p[1]
         ELSE IF zone_files[f] = "backzone" THEN p[2] ELSE Missing] :
       p \in {q \in ZoneFileSet \X ZoneFileSet :
                 Len(q[1].content) + Len(q[2].content) <= MaxItems}}

\* the lines zone1970.tab may hold
TabRecords == {
    <<"KR", "\t", "+", "3", "7", "3", "3", "+", "1", "2", "6", "5", "8", "\t", "Y", "\n">>,
    <<"TT", "\t", "+", "1", "-", "\t", "T", "\t", "short">>,
    <<"#", " ", "KR", "\t", "+", "\t", "Y">>,
    <<"QQ", "\t", "Y">>
}

TabFiles == {Missing} \cup {File(t) : t \in SeqsUpTo(TabRecords, MaxItems)}

VersionFiles == {Missing, File(<<"2025a", "\n">>)}

\* the mapZone elements the windowsZones.xml of a run of main may hold
MainMapZones == {
    [territory |-> "001", other |-> "W1", type |-> <<"T", " ", "Y">>],
    [territory |-> "001", other |-> "W2", type |-> <<"A">>],
    [territory |-> "001", other |-> "W3", type |-> <<"B">>],
    [territory |-> "KR", other |-> "W1", type |-> <<"A">>]
}

XmlFiles ==
    {Missing, Unparsable} \cup {File(d) : d \in SeqsUpTo(MainMapZones, MaxItems)}

\* the input of an earlier run of main
EarlierInput ==
    [version |-> File(<<"2025a", "\n">>),
     zone_files |->
        [f \in 1..Len(zone_files) |->
            IF zone_files[f] = "backward"
            THEN File(<< <<"Zone", " ", "Y", " ", "8:30", "\t", "-", " ", "KST",
                           " ", "1948", " ", " ", "Aug">> >>)
            ELSE Missing],
     tab |-> Missing,
     xml |-> File(<< [territory |-> "001", other |-> "W1",
                      type |-> <<"T", " ", "Y">>] >>)]

\* the output directory a run of main may find: empty, or as an earlier run
\* left it
LeftOutputs == {NoOutput, RunMain(NoOutput, EarlierInput)}

\* ---- get_latest_tz.py: download and extraction

\* what the network and the file system do to one call of
\* get_latest_tz_data:
\*   archive  the outcome of the request and write of tzdata-latest.tar.gz
\*   extract  the outcome of extract_tz_data on a downloaded archive
\*   win      the outcome of the request for windowsZones.xml
\*   dir      whether tzdata_raw/ exists before the call
DownloadEnvs ==
    [archive : {"ok", "RequestException", "IOError"},
     extract : {"ok", "empty", "TarError", "IOError"},
     win     : {"ok", "RequestException"},
     dir     : BOOLEAN]

\* True when the archive was downloaded and saved; both exceptions are caught
get_latest_tz_zipped_data(env) == env.archive = "ok"

\* returns None whatever happens; extracted: the files were unpacked;
\* dir: tzdata_raw/ exists afterwards (os.makedirs is reached unless the
\* archive is empty)
extract_tz_data(env) ==
    [extracted |-> env.extract = "ok",
     dir       |-> env.dir \/ env.extract # "empty"]

\* only requests.RequestException is caught: open() of a file in a missing
\* tzdata_raw/ raises out of the function
get_latest_win_zones(env, dir) ==
    IF env.win # "ok" THEN [raised |-> FALSE, returned |-> FALSE]
    ELSE IF ~dir THEN [raised |-> TRUE, returned |-> FALSE]
    ELSE [raised |-> FALSE, returned |-> TRUE]

\* returned is the value returned when raised is FALSE; the other fields
\* record what the call did
get_latest_tz_data(env) ==
    IF get_latest_tz_zipped_data(env)
    THEN LET x == extract_tz_data(env)
             w == get_latest_win_zones(env, x.dir)
         IN  [raised         |-> w.raised,
              returned       |-> ~w.raised,
              extract_called |-> TRUE,
              extracted      |-> x.extracted,
              win_success    |-> w.returned]
    ELSE [raised |-> FALSE, returned |-> FALSE, extract_called |-> FALSE,
          extracted |-> FALSE, win_success |-> FALSE]

\* the value main() hands to its caller: it has no return statement
main_returns == None

\* ---- the steps of main

parseLocals == <<tzdata, fidx, isOpen, current_zone, links, li, pc, xml, wpc>>

InitMain ==
    /\ tzdata = [i \in 1..Len(zone_files) |-> <<>>]
    /\ fidx = 0
    /\ isOpen = FALSE
    /\ current_zone = None
    /\ zones = EmptyDict
    /\ rules = EmptyDict
    /\ links = <<>>
    /\ li = 0
    /\ pc = "files"
    /\ lastlog = "none"
    /\ xml = <<>>
    /\ iana_to_windows = EmptyDict
    /\ windows_to_iana = EmptyDict
    /\ wpc = "idle"
    /\ metadata = EmptyDict
    /\ version = None
    /\ read = NothingRead
    /\ output_dir \in LeftOutputs
    /\ mpc = "start"

\* step 1: get_latest_tz_data() returns True; output_dir is created if absent
MainDownload ==
    /\ mpc = "start"
    /\ \E env \in DownloadEnvs :
          LET r == get_latest_tz_data(env)
          IN  /\ ~r.raised
              /\ r.returned
              /\ read' = [file |-> "download", data |-> env, result |-> r]
    /\ mpc' = "version"
    /\ lastlog' = "none"
    /\ UNCHANGED <<zones, rules, iana_to_windows, windows_to_iana, metadata,
                   version, output_dir>>
    /\ UNCHANGED parseLocals

\* step 1: get_latest_tz_data() returns False: sys.exit(1)
MainDownloadFails ==
    /\ mpc = "start"
    /\ \E env \in DownloadEnvs :
          LET r == get_latest_tz_data(env)
          IN  /\ ~r.raised
              /\ ~r.returned
              /\ read' = [file |-> "download", data |-> env, result |-> r]
    /\ mpc' = "exit1"
    /\ lastlog' = "none"
    /\ UNCHANGED <<zones, rules, iana_to_windows, windows_to_iana, metadata,
                   version, output_dir>>
    /\ UNCHANGED parseLocals

\* step 1: get_latest_tz_data() raises; the call is outside main's try
\* block, so the interpreter ends with a traceback and status 1
MainDownloadRaises ==
    /\ mpc = "start"
    /\ \E env \in DownloadEnvs :
          LET r == get_latest_tz_data(env)
          IN  /\ r.raised
              /\ read' = [file |-> "download", data |-> env, result |-> r]
    /\ mpc' = "exit1"
    /\ lastlog' = "none"
    /\ UNCHANGED <<zones, rules, iana_to_windows, windows_to_iana, metadata,
                   version, output_dir>>
    /\ UNCHANGED parseLocals

\* step 2: version = parse_version(input_dir)
MainParseVersion ==
    /\ mpc = "version"
    /\ \E f \in VersionFiles :
          /\ read' = [file |-> "version", data |-> f]
          /\ version' = parse_version(f)
          /\ lastlog' = IF f.exists THEN "info" ELSE "warning"
    /\ mpc' = "zones"
    /\ UNCHANGED <<zones, rules, iana_to_windows, windows_to_iana, metadata,
                   output_dir>>
    /\ UNCHANGED parseLocals

\* step 3: zones, rules = parse_zone_files(input_dir)
MainParseZoneFiles ==
    /\ mpc = "zones"
    /\ \E dir \in ZoneDirs :
          LET r == parse_zone_files(dir)
          IN  /\ read' = [file |-> "zones", data |-> dir]
              /\ zones' = r.zones
              /\ rules' = r.rules
    /\ mpc' = "metadata"
    /\ lastlog' = "info"
    /\ UNCHANGED <<iana_to_windows, windows_to_iana, metadata, version,
                   output_dir>>
    /\ UNCHANGED parseLocals

\* step 4: metadata = parse_zone1970_tab(input_dir)
MainParseZone1970Tab ==
    /\ mpc = "metadata"
    /\ \E f \in TabFiles :
          /\ read' = [file |-> "zone1970.tab", data |-> f]
          /\ metadata' = parse_zone1970_tab(f)
          /\ lastlog' = IF f.exists THEN "info" ELSE "warning"
    /\ mpc' = "windows"
    /\ UNCHANGED <<zones, rules, iana_to_windows, windows_to_iana, version,
                   output_dir>>
    /\ UNCHANGED parseLocals

\* step 5: iana_to_windows, windows_to_iana = parse_windows_zones_xml(path)
MainParseWindowsZonesXml ==
    /\ mpc = "windows"
    /\ \E f \in XmlFiles :
          LET m == parse_windows_zones_xml(f)
          IN  /\ read' = [file |-> "windowsZones.xml", data |-> f]
              /\ iana_to_windows' = m.iana_to_windows
              /\ windows_to_iana' = m.windows_to_iana
              /\ lastlog' = IF ~f.exists THEN "warning"
                            ELSE IF ~f.wellformed THEN "error" ELSE "info"
    /\ mpc' = "merge"
    /\ UNCHANGED <<zones, rules, metadata, version, output_dir>>
    /\ UNCHANGED parseLocals

\* step 6: merge_metadata_with_zones(zones, metadata)
MainMergeMetadata ==
    /\ mpc = "merge"
    /\ zones' = merge_metadata_with_zones(zones, metadata)
    /\ mpc' = "names"
    /\ lastlog' = "info"
    /\ UNCHANGED <<rules, iana_to_windows, windows_to_iana, metadata, version,
                   read, output_dir>>
    /\ UNCHANGED parseLocals

\* step 6: add_windows_names_to_zones(zones, iana_to_windows)
MainAddWindowsNames ==
    /\ mpc = "names"
    /\ zones' = add_windows_names_to_zones(zones, iana_to_windows)
    /\ mpc' = "json"
    /\ lastlog' = "info"
    /\ UNCHANGED <<rules, iana_to_windows, windows_to_iana, metadata, version,
                   read, output_dir>>
    /\ UNCHANGED parseLocals

\* step 7: write_combined_json(..., output_dir / "combined.json")
MainWriteJson ==
    /\ mpc = "json"
    /\ output_dir' =
          [output_dir EXCEPT
              !.json = <<write_combined_json(zones, rules, windows_to_iana,
                                             version)>>]
    /\ mpc' = "sqlite"
    /\ lastlog' = "info"
    /\ UNCHANGED <<zones, rules, iana_to_windows, windows_to_iana, metadata,
                   version, read>>
    /\ UNCHANGED parseLocals

\* step 7: write_combined_sqlite(..., output_dir / "combined.sqlite"); main
\* returns
MainWriteSqlite ==
    /\ mpc = "sqlite"
    /\ output_dir' =
          [output_dir EXCEPT
              !.sqlite = <<write_combined_sqlite(OpenDb(output_dir), zones,
                                                 rules, windows_to_iana)>>]
    /\ mpc' = "done"
    /\ lastlog' = "info"
    /\ UNCHANGED <<zones, rules, iana_to_windows, windows_to_iana, metadata,
                   version, read>>
    /\ UNCHANGED parseLocals

\* run_tzbundler: success = main(); sys.exit(0 if success else 1)
RunTzbundlerExit ==
    /\ mpc = "done"
    /\ mpc' = IF Truthy(main_returns) THEN "status0" ELSE "status1"
    /\ lastlog' = "none"
    /\ UNCHANGED <<zones, rules, iana_to_windows, windows_to_iana, metadata,
                   version, read, output_dir>>
    /\ UNCHANGED parseLocals

NextMain ==
    \/ MainDownload
    \/ MainDownloadFails
    \/ MainDownloadRaises
    \/ MainParseVersion
    \/ MainParseZoneFiles
    \/ MainParseZone1970Tab
    \/ MainParseWindowsZonesXml
    \/ MainMergeMetadata
    \/ MainAddWindowsNames
    \/ MainWriteJson
    \/ MainWriteSqlite
    \/ RunTzbundlerExit

\* one run of main, on any input files, into any output directory of
\* LeftOutputs
SpecMain == InitMain /\ [][NextMain]_vars

\* ---- the pipeline step by step: parse_zone_files, then the merge and the
\* ---- attachment of the Windows names

\* the iana_to_windows maps the attachment step may be given
NameMaps == {[n \in {"Y", "A"} |-> IF n = "Y" THEN <<"W1">> ELSE <<"W2">>]}

\* main, step 6: add_windows_names_to_zones(zones, iana_to_windows)
AddWindowsNames ==
    /\ pc = "merged"
    /\ \E m \in NameMaps :
          /\ iana_to_windows' = m
          /\ zones' = add_windows_names_to_zones(zones, m)
    /\ pc' = "named"
    /\ lastlog' = "info"
    /\ UNCHANGED <<tzdata, fidx, isOpen, current_zone, rules, links, li>>
    /\ UNCHANGED <<xml, windows_to_iana, wpc>>
    /\ UNCHANGED mainVars

NextPipeline ==
    \/ OpenFile
    \/ MissingFile
    \/ ReadLine
    \/ EndOfFile
    \/ StartLinks
    \/ ResolveLink
    \/ ReturnParsed
    \/ Merge
    \/ AddWindowsNames

SpecPipeline == Init /\ [][NextPipeline]_vars

\* =================================================================== claims

\* ---- vocabulary of the claims, read off the input text

\* the fields of every line of RawLines; none for a blank or comment line
FieldsOf ==
    [raw \in RawLines |-> IF IsSkipped(raw) THEN <<>> ELSE Split(Strip(raw))]

Fields(raw) == FieldsOf[raw]

IsRecord(raw) == Fields(raw) # <<>>

IsZoneRecord(raw) == IsRecord(raw) /\ Fields(raw)[1] = "Zone"

\* a Zone record that names its zone
NamesZone(raw, n) ==
    IsZoneRecord(raw) /\ Len(Fields(raw)) >= 2 /\ Fields(raw)[2] = n

\* a Zone record with all of keyword, name, offset, rule, abbreviation
IsValidZoneRecord(raw) == IsZoneRecord(raw) /\ Len(Fields(raw)) >= 5

IsRuleRecord(raw) == IsRecord(raw) /\ Fields(raw)[1] = "Rule"

IsLinkRecord(raw) ==
    IsRecord(raw) /\ Fields(raw)[1] = "Link" /\ Len(Fields(raw)) >= 3

IsContinuationLine(raw) == IsRecord(raw) /\ Fields(raw)[1] \notin Keywords

IsWellFormedContinuation(raw) ==
    IsContinuationLine(raw) /\ Len(Fields(raw)) >= 3

\* index of the most recent Zone record among lines, 0 when there is none
LastZoneIdx(lines) ==
    LET S == {i \in 1..Len(lines) : IsZoneRecord(lines[i])}
    IN  IF S = {} THEN 0 ELSE CHOOSE i \in S : \A j \in S : j <= i

LastValidZoneIdx(lines) ==
    LET S == {i \in 1..Len(lines) : IsValidZoneRecord(lines[i])}
    IN  IF S = {} THEN 0 ELSE CHOOSE i \in S : \A j \in S : j <= i

Last(seq) == seq[Len(seq)]
Front(seq) == SubSeq(seq, 1, Len(seq) - 1)

\* the step reads one line of the open file
ReadStep == tzdata' # tzdata

\* every zone other than n exists as before with the transitions it had
OthersKept(n) ==
    \A m \in (DOMAIN zones') \ {n} :
        m \in DOMAIN zones /\ zones'[m].transitions = zones[m].transitions

\* the step appends exactly one transition to the end of n's list
AppendsOneTo(n) ==
    /\ n \in DOMAIN zones /\ n \in DOMAIN zones'
    /\ Len(zones'[n].transitions) = Len(zones[n].transitions) + 1
    /\ Front(zones'[n].transitions) = zones[n].transitions

\* ---- C1

\* C1 as stated: a well-formed continuation line that follows a Zone record
\* naming Z (of any length), with no other Zone record in between, appends
\* exactly one transition to the end of Z's list and changes no other list.
C1_AsStated ==
    [][ReadStep =>
        LET raw == Last(tzdata'[fidx])
            k == LastZoneIdx(tzdata[fidx])
        IN  (IsWellFormedContinuation(raw) /\ k > 0
                /\ Len(Fields(tzdata[fidx][k])) >= 2)
            => LET Z == Fields(tzdata[fidx][k])[2]
               IN  AppendsOneTo(Z) /\ OthersKept(Z)]_vars

\* C1 amended: a well-formed continuation line that follows a Zone record for
\* Z with at least 5 fields in the same file, with no other Zone record in
\* between, appends exactly one transition to the end of Z's transition list
\* and leaves the transition list of every other zone unchanged.
C1_ContinuationAppends ==
    [][ReadStep =>
        LET raw == Last(tzdata'[fidx])
            k == LastZoneIdx(tzdata[fidx])
        IN  (IsWellFormedContinuation(raw) /\ k > 0
                /\ IsValidZoneRecord(tzdata[fidx][k]))
            => LET Z == Fields(tzdata[fidx][k])[2]
               IN  AppendsOneTo(Z) /\ OthersKept(Z)]_vars

\* C1 witness: a well-formed continuation line has just been read after a valid Zone
\* record for Y, and Y holds the two transitions while Z holds its own one
C1_Witness ==
    /\ pc = "files" /\ isOpen /\ Len(tzdata[fidx]) = 2
    /\ tzdata[fidx - 1] # <<>>
    /\ IsValidZoneRecord(tzdata[fidx][1]) /\ NamesZone(tzdata[fidx][1], "Y")
    /\ IsWellFormedContinuation(tzdata[fidx][2])
    /\ DOMAIN zones = {"Y", "Z"}
    /\ Len(zones["Y"].transitions) = 2
    /\ Len(zones["Z"].transitions) = 1

\* ---- C2

\* C2: current_zone is reset when a file is opened; a continuation line only
\* ever adds a transition to a zone with a Zone record earlier in the same
\* file (so the zone's most recent Zone record is never in another file); a
\* continuation-shaped line before the first Zone record of its file adds no
\* transition to any zone.
C2_ResetPerFile ==
    [][/\ (fidx' # fidx /\ isOpen') => current_zone' = None
       /\ ReadStep =>
            LET raw == Last(tzdata'[fidx])
            IN  IsContinuationLine(raw) =>
                  /\ DOMAIN zones' = DOMAIN zones
                  /\ \A n \in DOMAIN zones :
                        zones'[n].transitions # zones[n].transitions
                        => \E i \in 1..Len(tzdata[fidx]) :
                              NamesZone(tzdata[fidx][i], n)
                  /\ LastValidZoneIdx(tzdata[fidx]) = 0 => zones' = zones]_vars

\* C2 witness: the second file starts with a well-formed continuation line, after a first
\* file that ended inside the block of zone Y: Y still has one transition
C2_Witness ==
    /\ pc = "files" /\ isOpen /\ fidx = Len(zone_files)
    /\ tzdata[fidx - 1] # <<>> /\ IsValidZoneRecord(Last(tzdata[fidx - 1]))
    /\ Len(tzdata[fidx]) = 1 /\ IsWellFormedContinuation(tzdata[fidx][1])
    /\ DOMAIN zones = {"Y"}
    /\ Len(zones["Y"].transitions) = 1
    /\ current_zone = None

\* ---- the whole input, in processing order

RECURSIVE FilesUpTo(_)
FilesUpTo(f) == IF f = 0 THEN <<>> ELSE FilesUpTo(f - 1) \o tzdata[f]

Input == FilesUpTo(Len(zone_files))

Range(seq) == {seq[i] : i \in 1..Len(seq)}

\* the Link records of the input, in processing order, with their positions
RECURSIVE LinkRecsFrom(_, _)
LinkRecsFrom(inp, i) ==
    IF i > Len(inp) THEN <<>>
    ELSE IF IsLinkRecord(inp[i])
         THEN <<[pos |-> i, target |-> Fields(inp[i])[2],
                 alias |-> Fields(inp[i])[3]]>> \o LinkRecsFrom(inp, i + 1)
         ELSE LinkRecsFrom(inp, i + 1)

LinkRecs == LinkRecsFrom(Input, 1)

\* a later Link record of L gives the alias of L[i] another target
Superseded(L, i) ==
    \E j \in (i + 1)..Len(L) :
        L[j].alias = L[i].alias /\ L[j].target # L[i].target

\* the Zone records with at least 5 fields, as (name, position) pairs
ZoneDefs ==
    LET inp == Input
    IN  {<<Fields(inp[i])[2], i>> :
            i \in {j \in 1..Len(inp) : IsValidZoneRecord(inp[j])}}

\* the names that are the subject of some Zone record, of any length
ZoneSubjects ==
    LET inp == Input
    IN  {Fields(inp[i])[2] :
            i \in {j \in 1..Len(inp) :
                      IsZoneRecord(inp[j]) /\ Len(Fields(inp[j])) >= 2}}

Names(defs) == {d[1] : d \in defs}

\* The record bodies [offset, rule, abbr, until...] that belong to zone n in
\* one file: those of the Zone records for n with at least 5 fields and of the
\* continuation lines with at least 3 fields of their blocks.
RECURSIVE BodiesIn(_, _, _)
BodiesIn(lines, owner, n) ==
    IF lines = <<>> THEN <<>>
    ELSE LET raw == Head(lines)
             f == Fields(raw)
         IN  IF IsValidZoneRecord(raw)
             THEN (IF f[2] = n THEN <<Slice(f, 2)>> ELSE <<>>)
                     \o BodiesIn(Tail(lines), f[2], n)
             ELSE IF IsWellFormedContinuation(raw) /\ owner # None
             THEN (IF owner = n THEN <<f>> ELSE <<>>)
                     \o BodiesIn(Tail(lines), owner, n)
             ELSE BodiesIn(Tail(lines), owner, n)

RECURSIVE BodiesUpTo(_, _)
BodiesUpTo(f, n) ==
    IF f = 0 THEN <<>> ELSE BodiesUpTo(f - 1, n) \o BodiesIn(tzdata[f], None, n)

Bodies(n) == BodiesUpTo(Len(zone_files), n)

\* parse_zone_files has just returned
Parsed == pc = "parsed"

\* ---- C3

\* while a file is unread no alias is attached and every zone has transitions
NoEarlyResolution ==
    pc = "files" =>
        \A n \in DOMAIN zones :
            zones[n].aliases = <<>> /\ zones[n].transitions # <<>>

\* the Link record is attached to its target, a zone with all its transitions
AttachedToRealZone(l) ==
    /\ l.target \in DOMAIN zones
    /\ l.alias \in Range(zones[l.target].aliases)
    /\ zones[l.target].transitions # <<>>
    /\ Len(zones[l.target].transitions) = Len(Bodies(l.target))

\* C3 as stated: no alias or placeholder before all files are read, and every
\* Link record whose target is defined by a later Zone record ends attached to
\* that zone, which keeps its transitions.
C3_AsStated ==
    /\ NoEarlyResolution
    /\ Parsed =>
         LET L == LinkRecs
             D == ZoneDefs
         IN  \A i \in 1..Len(L) :
                (\E d \in D : d[1] = L[i].target /\ d[2] > L[i].pos)
                => AttachedToRealZone(L[i])

\* C3 amended: link resolution happens only after all ten zone files have been
\* processed (no alias is attached and no placeholder is created while a file
\* is unread), so a Link record that no later Link record supersedes (same
\* alias, other target) and whose target is defined by a Zone record later in
\* the input is attached to that real zone, which keeps its transitions.
C3_LinksAfterAllFiles ==
    /\ NoEarlyResolution
    /\ Parsed =>
         LET L == LinkRecs
             D == ZoneDefs
         IN  \A i \in 1..Len(L) :
                (/\ ~Superseded(L, i)
                 /\ \E d \in D : d[1] = L[i].target /\ d[2] > L[i].pos)
                => AttachedToRealZone(L[i])

\* C3 witness: "Link Y A" in the first file, "Zone Y ..." and a continuation in the second
C3_Witness ==
    /\ pc = "parsed"
    /\ tzdata[Len(zone_files) - 1] # <<>>
    /\ IsLinkRecord(tzdata[Len(zone_files) - 1][1])
    /\ Len(tzdata[Len(zone_files)]) = 2
    /\ NamesZone(tzdata[Len(zone_files)][1], "Y")
    /\ DOMAIN zones = {"Y"}
    /\ zones["Y"].aliases = <<"A">>
    /\ Len(zones["Y"].transitions) = 2

\* ---- C4

\* the aliases whose unsuperseded Link records name target n
AliasesOf(L, n) ==
    {L[i].alias : i \in {j \in 1..Len(L) : ~Superseded(L, j) /\ L[j].target = n}}

\* C4 as stated: every Link record whose target is never the subject of a Zone
\* record yields a zone named target with no transitions and aliases {alias}.
C4_AsStated ==
    Parsed =>
        LET L == LinkRecs
            S == ZoneSubjects
        IN  \A i \in 1..Len(L) :
                L[i].target \notin S
                => /\ L[i].target \in DOMAIN zones
                   /\ zones[L[i].target].transitions = <<>>
                   /\ Range(zones[L[i].target].aliases) = {L[i].alias}

\* C4 amended: for every Link record (target, alias) that no later Link record
\* supersedes and whose target is never defined by a Zone record, the zone
\* table holds a zone named target with an empty transition list whose aliases
\* are exactly the aliases of the unsuperseded Link records naming target,
\* each once (so exactly {alias} when it is the only such record).
C4_Placeholder ==
    Parsed =>
        LET L == LinkRecs
            N == Names(ZoneDefs)
        IN  \A i \in 1..Len(L) :
                (~Superseded(L, i) /\ L[i].target \notin N)
                => /\ L[i].target \in DOMAIN zones
                   /\ zones[L[i].target].transitions = <<>>
                   /\ L[i].alias \in Range(zones[L[i].target].aliases)
                   /\ Range(zones[L[i].target].aliases) = AliasesOf(L, L[i].target)
                   /\ Len(zones[L[i].target].aliases)
                        = Cardinality(AliasesOf(L, L[i].target))

\* C4 witness: "Link T B" with T never defined, next to a parsed zone
C4_Witness ==
    /\ pc = "parsed"
    /\ DOMAIN zones = {"T", "Z"}
    /\ zones["T"].transitions = <<>>
    /\ zones["T"].aliases = <<"B">>
    /\ zones["T"].name = "T"
    /\ zones["Z"].aliases = <<>>
    /\ \E i \in 1..Len(LinkRecs) :
          LinkRecs[i].target = "T" /\ LinkRecs[i].alias = "B"

\* ---- C5

\* every key of the zone table is defined by a Zone record or is a Link target
KeysAreZonesOrTargets ==
    LET L == LinkRecs
        N == Names(ZoneDefs)
    IN  \A n \in DOMAIN zones :
            n \in N \/ \E i \in 1..Len(L) : L[i].target = n

\* C5 as stated: every Link record whose target is defined by a Zone record
\* has its alias in the target's aliases, and no other key is added.
C5_AsStated ==
    Parsed =>
      /\ KeysAreZonesOrTargets
      /\ LET L == LinkRecs
             N == Names(ZoneDefs)
         IN  \A i \in 1..Len(L) :
                L[i].target \in N
                => /\ L[i].target \in DOMAIN zones
                   /\ L[i].alias \in Range(zones[L[i].target].aliases)

\* C5 amended: for a Link record (target T, alias A) that no later Link record
\* supersedes, where T is defined by a Zone record, A is in zones[T].aliases;
\* and a name is a key of the zone table only if it is named by a Zone record
\* with at least 5 fields or is the target of a Link record.
C5_AliasOnTarget ==
    Parsed =>
      /\ KeysAreZonesOrTargets
      /\ LET L == LinkRecs
             N == Names(ZoneDefs)
         IN  \A i \in 1..Len(L) :
                (~Superseded(L, i) /\ L[i].target \in N)
                => /\ L[i].target \in DOMAIN zones
                   /\ L[i].alias \in Range(zones[L[i].target].aliases)

\* C5 witness: "Zone Y ..." parsed, then "Link Y A": A is an alias of Y and no zone
C5_Witness ==
    /\ pc = "parsed"
    /\ Len(Input) = 2
    /\ NamesZone(Input[1], "Y") /\ IsLinkRecord(Input[2])
    /\ DOMAIN zones = {"Y"}
    /\ zones["Y"].aliases = <<"A">>
    /\ "A" \notin DOMAIN zones


\* ---- C6

\* C6: after parse_zone_files and merge_metadata_with_zones, the transitions
\* of every zone are those of its Zone records (at least 5 fields) and
\* continuation lines (at least 3 fields), and the rule_name of each is None
\* if and only if the rule-or-dash field is exactly "-", and is that field
\* otherwise.
C6_RuleNameAbsentIffDash ==
    pc = "merged" =>
        \A n \in DOMAIN zones :
            LET B == Bodies(n)
                T == zones[n].transitions
            IN  /\ Len(T) = Len(B)
                /\ \A i \in 1..Len(T) :
                      /\ (T[i].rule_name = None) <=> (B[i][2] = "-")
                      /\ B[i][2] # "-" => T[i].rule_name = B[i][2]

\* C6 witness: merged: Y's Zone record has "-", Z's has "R", and a continuation follows
C6_Witness ==
    /\ pc = "merged"
    /\ DOMAIN zones = {"Y", "Z"}
    /\ Len(zones["Y"].transitions) = 1
    /\ zones["Y"].transitions[1].rule_name = None
    /\ Len(zones["Z"].transitions) = 2
    /\ zones["Z"].transitions[1].rule_name = "R"
    /\ zones["Z"].transitions[2].rule_name \in {None, "R"}
    /\ Len(Input) = 3 /\ IsWellFormedContinuation(Input[3])

\* ---- C7

\* tokens joined by single spaces, built from the right
RECURSIVE SpaceJoined(_)
SpaceJoined(toks) ==
    IF toks = <<>> THEN ""
    ELSE IF Len(toks) = 1 THEN toks[1]
    ELSE SpaceJoined(Front(toks)) \o " " \o Last(toks)

\* the spec's scenario, with the zone called Y and a two-token UNTIL
SeoulScenario ==
    << <<"Zone", " ", "Y", " ", "8:30", "\t", "-", " ", "KST", " ", "1948", " ", " ", "Aug">>,
       <<" ", "9:00", " ", "-", " ", "KST">> >>

\* C7: the zone's transitions are, in line order, one per Zone record and
\* well-formed continuation line of its blocks (k + 1 for a Zone record with k
\* continuation lines), each with offset and abbr taken from its fields and
\* to_utc its remaining tokens joined by single spaces ("" when none); a
\* continuation line is read as the Zone record's fields after the name.
C7_BlockTransitions ==
    Parsed =>
        /\ \A n \in DOMAIN zones :
              LET B == Bodies(n)
                  T == zones[n].transitions
              IN  /\ Len(T) = Len(B)
                  /\ \A i \in 1..Len(T) :
                        /\ T[i].offset = B[i][1]
                        /\ T[i].abbr = B[i][3]
                        /\ T[i].to_utc = SpaceJoined(Slice(B[i], 3))
        /\ (\E f \in 1..Len(zone_files) : tzdata[f] = SeoulScenario)
              /\ Len(Input) = 2 =>
              /\ DOMAIN zones = {"Y"}
              /\ zones["Y"].transitions =
                    << [to_utc |-> "1948 Aug", offset |-> "8:30", abbr |-> "KST",
                        rule_name |-> "-"],
                       [to_utc |-> "", offset |-> "9:00", abbr |-> "KST",
                        rule_name |-> "-"] >>

\* C7 witness: the scenario has been parsed: two transitions, UNTIL re-joined
C7_Witness ==
    /\ pc = "parsed"
    /\ tzdata[Len(zone_files)] = SeoulScenario
    /\ Len(Input) = 2
    /\ Len(zones["Y"].transitions) = 2
    /\ zones["Y"].transitions[1].to_utc = "1948 Aug"
    /\ zones["Y"].transitions[2].to_utc = ""

\* ---- C8

\* a line that raises while being parsed, as the claim lists them
IsShortRecord(raw) ==
    \/ IsRuleRecord(raw) /\ Len(Fields(raw)) < 9
    \/ IsZoneRecord(raw) /\ Len(Fields(raw)) < 5
    \/ IsContinuationLine(raw) /\ Len(Fields(raw)) < 3

RECURSIVE WithoutShort(_)
WithoutShort(lines) ==
    IF lines = <<>> THEN <<>>
    ELSE IF IsShortRecord(Head(lines)) THEN WithoutShort(Tail(lines))
    ELSE <<Head(lines)>> \o WithoutShort(Tail(lines))

\* C8: a Rule record with fewer than 9 fields, a Zone record with fewer than 5
\* or a continuation line with fewer than 3 leaves zones, rules, links and
\* current_zone as they were, and the result of parse_zone_files is its result
\* on the input without these lines.
C8_ShortLineSkipped ==
    /\ [][ReadStep =>
            (IsShortRecord(Last(tzdata'[fidx]))
             => /\ zones' = zones /\ rules' = rules /\ links' = links
                /\ current_zone' = current_zone)]_vars
    /\ [](Parsed =>
            LET r == RunParse([f \in 1..Len(zone_files) |-> WithoutShort(tzdata[f])])
            IN  zones = r.zones /\ rules = r.rules)

\* C8 witness: a short Rule record was read inside Y's block, and the next line of the
\* file was processed: no rule set exists and Y got its continuation
C8_Witness ==
    /\ pc = "parsed"
    /\ Len(Input) = 3
    /\ NamesZone(Input[1], "Y")
    /\ IsRuleRecord(Input[2]) /\ IsShortRecord(Input[2])
    /\ IsWellFormedContinuation(Input[3])
    /\ rules = EmptyDict
    /\ DOMAIN zones = {"Y"}
    /\ Len(zones["Y"].transitions) = 2

\* ---- C9

\* number of times x occurs in the list d[k] (0 when k is not a key)
Occurrences(d, k, x) ==
    IF k \in DOMAIN d THEN Cardinality({i \in 1..Len(d[k]) : d[k][i] = x}) ELSE 0

\* the zone names listed in the type attribute
Listed(e) == Range(Split(e.type))

\* C9: each zone listed by a territory-"001" element with a non-empty other
\* attribute W is in windows_to_iana[W] and has W in iana_to_windows[Z]; and Z
\* occurs in windows_to_iana[W] as often as W occurs in iana_to_windows[Z].
C9_Bidirectional ==
    /\ \A i \in 1..Len(xml) :
          (xml[i].territory = "001" /\ xml[i].other \notin {None, ""})
          => \A Z \in Listed(xml[i]) :
                /\ Occurrences(windows_to_iana, xml[i].other, Z) >= 1
                /\ Occurrences(iana_to_windows, Z, xml[i].other) >= 1
    /\ \A W \in DOMAIN windows_to_iana : \A Z \in Range(windows_to_iana[W]) :
          Occurrences(windows_to_iana, W, Z) = Occurrences(iana_to_windows, Z, W)
    /\ \A Z \in DOMAIN iana_to_windows : \A W \in Range(iana_to_windows[Z]) :
          Occurrences(windows_to_iana, W, Z) = Occurrences(iana_to_windows, Z, W)

\* C9 witness: W1 -> Y and W2 -> Y Z were read: Y carries both Windows names
C9_Witness ==
    /\ wpc = "done"
    /\ Len(xml) = 2
    /\ DOMAIN windows_to_iana = {"W1", "W2"}
    /\ windows_to_iana["W2"] = <<"Y", "Z">>
    /\ DOMAIN iana_to_windows = {"Y", "Z"}
    /\ iana_to_windows["Y"] = <<"W1", "W2">>
    /\ iana_to_windows["Z"] = <<"W2">>

\* ---- C10

\* the territory-"001" elements of the document read so far that name W
GlobalFor(W) ==
    {i \in 1..Len(xml) : xml[i].territory = "001" /\ xml[i].other = W}

\* list entries a document element contributes, by the claim
Contribution(e) ==
    IF e.territory = "001" /\ e.other \notin {None, ""} THEN Len(Split(e.type))
    ELSE 0

RECURSIVE TotalContribution(_)
TotalContribution(doc) ==
    IF doc = <<>> THEN 0 ELSE Contribution(Head(doc)) + TotalContribution(Tail(doc))

RECURSIVE TotalEntries(_, _)
TotalEntries(d, keys) ==
    IF keys = {} THEN 0
    ELSE LET k == CHOOSE x \in keys : TRUE
         IN  Len(d[k]) + TotalEntries(d, keys \ {k})

\* C10: only territory-"001" elements contribute keys and list entries, and a
\* Windows name with exactly one territory-"001" element maps to exactly the
\* zone names of that element's type attribute, in their listed order.
C10_GlobalTerritoryOnly ==
    /\ \A W \in DOMAIN windows_to_iana : GlobalFor(W) # {}
    /\ \A Z \in DOMAIN iana_to_windows :
          \E i \in 1..Len(xml) : xml[i].territory = "001" /\ Z \in Listed(xml[i])
    /\ TotalEntries(windows_to_iana, DOMAIN windows_to_iana) = TotalContribution(xml)
    /\ TotalEntries(iana_to_windows, DOMAIN iana_to_windows) = TotalContribution(xml)
    /\ \A W \in {xml[i].other : i \in 1..Len(xml)} \ {None, ""} :
          Cardinality(GlobalFor(W)) = 1
          => LET e == xml[CHOOSE i \in GlobalFor(W) : TRUE]
             IN  IF Split(e.type) = <<>> THEN W \notin DOMAIN windows_to_iana
                 ELSE /\ W \in DOMAIN windows_to_iana
                      /\ windows_to_iana[W] = Split(e.type)

\* C10 witness: the spec's scenario next to a territory-specific element for the same name
C10_Witness ==
    /\ wpc = "done"
    /\ Len(xml) = 2
    /\ xml[1].territory = "KR" /\ xml[1].other = "W1"
    /\ xml[2].territory = "001" /\ xml[2].other = "W1"
    /\ windows_to_iana = [w \in {"W1"} |-> <<"Y">>]
    /\ iana_to_windows = [z \in {"Y"} |-> <<"W1">>]

\* ---- vocabulary of the claims about main

\* add_windows_names_to_zones has run
NamesAdded == mpc \in {"json", "sqlite", "done"}

\* main has returned
Done == mpc = "done"

\* main has read one of its input files
InputRead == read.file \notin {"none", "download"}

\* the windowsZones.xml the run has parsed, once it has
XmlRead == read.file = "windowsZones.xml"

\* the object in combined.json and the database in combined.sqlite
Json == output_dir.json[1]
Db == output_dir.sqlite[1]

\* ---- C11

\* positions in Z's aliases of the aliases that are keys of iana_to_windows
MappedAliasIdx(Z) ==
    {i \in 1..Len(zones[Z].aliases) : zones[Z].aliases[i] \in DOMAIN iana_to_windows}

MinOf(S) == CHOOSE i \in S : \A j \in S : i <= j

\* C11: after add_windows_names_to_zones, for every zone Z: if Z's name is a
\* key of iana_to_windows, Z.win_names is that list; otherwise it is the list
\* of the first alias of Z, in the order of Z.aliases, that is a key; if
\* neither the name nor any alias is a key, Z.win_names is empty.
C11_WinNames ==
    NamesAdded =>
        \A Z \in DOMAIN zones :
            IF Z \in DOMAIN iana_to_windows
            THEN zones[Z].win_names = iana_to_windows[Z]
            ELSE IF MappedAliasIdx(Z) # {}
            THEN zones[Z].win_names =
                    iana_to_windows[zones[Z].aliases[MinOf(MappedAliasIdx(Z))]]
            ELSE zones[Z].win_names = <<>>

\* C11 witness: T has aliases A, B and no mapping of its own; the document
\* maps B first and A second; T carries the names of A, its first alias
C11_Witness ==
    /\ Done
    /\ "T" \in DOMAIN zones /\ zones["T"].aliases = <<"A", "B">>
    /\ "T" \notin DOMAIN iana_to_windows
    /\ XmlRead /\ Len(read.data.content) = 2
    /\ read.data.content[1].type = <<"B">>
    /\ DOMAIN iana_to_windows = {"A", "B"}
    /\ iana_to_windows["A"] = <<"W2">> /\ iana_to_windows["B"] = <<"W3">>
    /\ zones["T"].win_names = <<"W2">>

\* ---- C12

\* the file is missing, cannot be parsed, or has no territory-"001" element
NoGlobalElement(f) ==
    \/ ~f.exists
    \/ ~f.wellformed
    \/ \A i \in 1..Len(f.content) : f.content[i].territory # "001"

\* C12: parse_windows_zones_xml never raises (the step after it is the merge,
\* never the exit); when the file is missing, unparsable or without a
\* territory-"001" element both maps are empty, and the run goes on to write
\* zones whose win_names are all empty.
C12_XmlNeverFatal ==
    /\ [][mpc = "windows" => mpc' = "merge"]_vars
    /\ [](InputRead => mpc # "exit1")
    /\ []((XmlRead /\ NoGlobalElement(read.data)) =>
            /\ iana_to_windows = EmptyDict /\ windows_to_iana = EmptyDict
            /\ NamesAdded => \A Z \in DOMAIN zones : zones[Z].win_names = <<>>
            /\ Done => /\ output_dir.json # <<>>
                       /\ DOMAIN Json.timezones = DOMAIN zones
                       /\ \A Z \in DOMAIN zones :
                             Json.timezones[Z].win_names = <<>>
                       /\ Json.windows_mapping = EmptyDict)

\* C12 witness: the document holds only a territory-"KR" element naming A; the
\* run is complete and zone T, alias A, has no Windows name
C12_Witness ==
    /\ Done
    /\ XmlRead /\ read.data.exists /\ read.data.wellformed
    /\ Len(read.data.content) = 1 /\ read.data.content[1].territory = "KR"
    /\ "T" \in DOMAIN zones /\ zones["T"].aliases = <<"A">>
    /\ Json.timezones["T"].win_names = <<>>
    /\ windows_to_iana = EmptyDict

\* ---- C13

\* the step is main's call of merge_metadata_with_zones
MergeStep == pc = "parsed" /\ pc' = "merged"

\* the geographic fields have their defaults
EmptyGeo(z) ==
    z.country_code = "" /\ z.latitude = <<>> /\ z.longitude = <<>> /\ z.comment = ""

\* the records of md whose zone name is in S
Restrict(md, S) == [n \in (DOMAIN md) \cap S |-> md[n]]

\* C13: merge_metadata_with_zones adds no zone and removes none; the records
\* whose zone name is not a key of the zone table have no effect (the result
\* is the one obtained without them); a zone without a record of its own name
\* keeps empty country_code, latitude, longitude and comment; aliases and the
\* to_utc, offset and abbr of every transition are unchanged.
C13_MergeByZoneName ==
    [][MergeStep =>
        /\ DOMAIN zones' = DOMAIN zones
        /\ zones' = merge_metadata_with_zones(zones,
                                              Restrict(metadata', DOMAIN zones))
        /\ \A n \in DOMAIN zones :
              /\ n \notin DOMAIN metadata' => EmptyGeo(zones'[n])
              /\ zones'[n].name = zones[n].name
              /\ zones'[n].aliases = zones[n].aliases
              /\ Len(zones'[n].transitions) = Len(zones[n].transitions)
              /\ \A i \in 1..Len(zones[n].transitions) :
                    /\ zones'[n].transitions[i].to_utc = zones[n].transitions[i].to_utc
                    /\ zones'[n].transitions[i].offset = zones[n].transitions[i].offset
                    /\ zones'[n].transitions[i].abbr = zones[n].transitions[i].abbr]_vars

\* C13 witness: the metadata has records for Y and Q; the zone table holds Y
\* and Z: Y got its country, Z keeps the defaults, Q is no zone
C13_Witness ==
    /\ pc = "merged"
    /\ DOMAIN metadata = {"Y", "Q"}
    /\ DOMAIN zones = {"Y", "Z"}
    /\ zones["Y"].country_code = "KR"
    /\ EmptyGeo(zones["Z"])
    /\ Len(zones["Z"].transitions) = 2

\* ---- C14

\* C14 as stated: every zone with a metadata record has latitude and longitude
\* the two halves of the coordinate text, whatever its length.
C14_AsStated ==
    pc = "merged" =>
        \A n \in (DOMAIN zones) \cap (DOMAIN metadata) :
            LET c == metadata[n].coordinates
                mid == Len(c) \div 2
            IN  /\ zones[n].country_code = metadata[n].country_code
                /\ zones[n].comment = metadata[n].comment
                /\ zones[n].latitude = SubSeq(c, 1, mid)
                /\ zones[n].longitude = SubSeq(c, mid + 1, Len(c))
                /\ zones[n].latitude \o zones[n].longitude = c

\* C14 amended: for each zone whose name matches a metadata record with
\* coordinate text c, country_code and comment are those of the record; when
\* c has at least 4 characters latitude is the first floor(len(c)/2)
\* characters of c and longitude the remaining ones, so that latitude followed
\* by longitude equals c; when c has fewer than 4 characters latitude and
\* longitude stay empty.
C14_CoordinateHalves ==
    pc = "merged" =>
        \A n \in (DOMAIN zones) \cap (DOMAIN metadata) :
            LET c == metadata[n].coordinates
                mid == Len(c) \div 2
            IN  /\ zones[n].country_code = metadata[n].country_code
                /\ zones[n].comment = metadata[n].comment
                /\ Len(c) >= 4 =>
                      /\ zones[n].latitude = SubSeq(c, 1, mid)
                      /\ Len(zones[n].latitude) = mid
                      /\ zones[n].longitude = SubSeq(c, mid + 1, Len(c))
                      /\ zones[n].latitude \o zones[n].longitude = c
                /\ Len(c) < 4 =>
                      zones[n].latitude = <<>> /\ zones[n].longitude = <<>>

\* C14 witness: zone Y merged with its record "+3733+12658" (11 characters)
C14_Witness ==
    /\ pc = "merged"
    /\ "Y" \in DOMAIN zones /\ "Y" \in DOMAIN metadata
    /\ Len(metadata["Y"].coordinates) = 11
    /\ zones["Y"].latitude = <<"+", "3", "7", "3", "3">>
    /\ zones["Y"].longitude = <<"+", "1", "2", "6", "5", "8">>
    /\ zones["Y"].country_code = "KR"

\* ---- C15

\* C15 as stated: in the zone table parse_zone_files returns, the transitions
\* of every zone are in order of appearance in the source and every
\* transition before the last has a non-empty to_utc.
C15_AsStated ==
    Parsed =>
        \A n \in DOMAIN zones :
            LET B == Bodies(n)
                T == zones[n].transitions
            IN  /\ Len(T) = Len(B)
                /\ \A i \in 1..Len(T) :
                      T[i].offset = B[i][1] /\ T[i].abbr = B[i][3]
                /\ \A i \in 1..(Len(T) - 1) : T[i].to_utc # ""

\* ---- C16

\* the directory with every missing zone file present but empty
AsEmpty(dir) ==
    [f \in DOMAIN dir |-> IF dir[f].exists THEN dir[f] ELSE File(<<>>)]

\* C16: missing input files are non-fatal (no step leads to the exit); for any
\* set of missing zone files parse_zone_files returns the zones and rules it
\* returns when each missing file is present but empty; with zone1970.tab
\* missing the metadata map is empty; with the version file missing the
\* version is "unknown".
C16_MissingFilesNonFatal ==
    /\ InputRead => mpc # "exit1"
    /\ read.file = "zones" =>
          LET r == parse_zone_files(AsEmpty(read.data))
          IN  zones = r.zones /\ rules = r.rules
    /\ (read.file = "zone1970.tab" /\ ~read.data.exists) => metadata = EmptyDict
    /\ (read.file = "version" /\ ~read.data.exists) => version = "unknown"

\* C16 witness: the version file and nine zone files are missing, "backward"
\* holds a Zone record and a Rule record: both are in the result
C16_Witness ==
    /\ mpc = "metadata" /\ read.file = "zones"
    /\ version = "unknown"
    /\ \E f \in 1..Len(zone_files) :
          /\ read.data[f].exists /\ Len(read.data[f].content) = 2
          /\ \A g \in 1..Len(zone_files) : g # f => ~read.data[g].exists
          /\ f < Len(zone_files)
    /\ DOMAIN zones = {"Y"}
    /\ DOMAIN rules = {"R"}

\* ---- C17

\* the line is blank, or its first non-whitespace character is #
IsBlankOrComment(raw) ==
    LET S == {i \in 1..Len(raw) : raw[i] \notin WS}
    IN  S = {} \/ raw[MinOf(S)] = "#"

\* C17: a blank line or a line whose first non-whitespace character is #
\* leaves the zone table, the rule table, the link map and the current zone
\* as they were and reports nothing; an input holding only such lines gives
\* zero zones and zero rules.
C17_CommentsIgnored ==
    /\ [][ReadStep =>
            (IsBlankOrComment(Last(tzdata'[fidx]))
             => /\ zones' = zones /\ rules' = rules /\ links' = links
                /\ current_zone' = current_zone
                /\ lastlog' = "none")]_vars
    /\ []((Parsed /\ \A i \in 1..Len(Input) : IsBlankOrComment(Input[i]))
            => zones = EmptyDict /\ rules = EmptyDict)

\* C17 witness: a comment line between the Zone record of Y and its
\* continuation line: the block goes on and Y has both transitions
C17_Witness ==
    /\ pc = "files" /\ isOpen
    /\ Len(tzdata[fidx]) = 3
    /\ NamesZone(tzdata[fidx][1], "Y")
    /\ IsBlankOrComment(tzdata[fidx][2]) /\ "#" \in Range(tzdata[fidx][2])
    /\ IsWellFormedContinuation(tzdata[fidx][3])
    /\ current_zone = "Y"
    /\ Len(zones["Y"].transitions) = 2

\* ---- C18

\* the Windows names of the output: keys of windows_mapping and win_names
WindowsNames(j) ==
    (DOMAIN j.windows_mapping)
        \cup UNION {Range(j.timezones[Z].win_names) : Z \in DOMAIN j.timezones}

\* the name n is in the list windows_mapping[W]
InMapping(j, W, n) ==
    W \in DOMAIN j.windows_mapping /\ n \in Range(j.windows_mapping[W])

\* the name n is in some list of windows_mapping
Mapped(j, n) == \E W \in DOMAIN j.windows_mapping : InMapping(j, W, n)

\* C18 as stated: for every zone Z of timezones and every Windows name W, W is
\* in timezones[Z].win_names if and only if Z is in windows_mapping[W].
C18_AsStated ==
    Done =>
        \A Z \in DOMAIN Json.timezones : \A W \in WindowsNames(Json) :
            (W \in Range(Json.timezones[Z].win_names)) <=> InMapping(Json, W, Z)

\* C18 amended: for every zone Z of timezones and every Windows name W: when
\* Z is in some list of windows_mapping, W is in timezones[Z].win_names if and
\* only if Z is in windows_mapping[W]; otherwise W is in
\* timezones[Z].win_names if and only if the first of timezones[Z].aliases
\* that is in some list of windows_mapping is in windows_mapping[W] (and
\* win_names is empty when there is no such alias).
C18_ConsistentThroughAliases ==
    Done =>
        \A Z \in DOMAIN Json.timezones : \A W \in WindowsNames(Json) :
            LET al == Json.timezones[Z].aliases
                S == {i \in 1..Len(al) : Mapped(Json, al[i])}
            IN  (W \in Range(Json.timezones[Z].win_names))
                <=> IF Mapped(Json, Z) THEN InMapping(Json, W, Z)
                    ELSE S # {} /\ InMapping(Json, W, al[MinOf(S)])

\* C18 witness: zone T has aliases A, B and no entry of its own; the document
\* maps W2 to A and W3 to B: T carries W2, the name of its first alias, only
C18_Witness ==
    /\ Done
    /\ DOMAIN Json.windows_mapping = {"W2", "W3"}
    /\ Json.windows_mapping["W2"] = <<"A">>
    /\ Json.windows_mapping["W3"] = <<"B">>
    /\ "T" \in DOMAIN Json.timezones
    /\ Json.timezones["T"].aliases = <<"A", "B">>
    /\ Json.timezones["T"].win_names = <<"W2">>

\* ---- C19

\* number of rows of a table
RECURSIVE BagSizeOver(_, _)
BagSizeOver(b, rows) ==
    IF rows = {} THEN 0
    ELSE LET r == CHOOSE x \in rows : TRUE
         IN  b[r] + BagSizeOver(b, rows \ {r})

BagSize(b) == BagSizeOver(b, DOMAIN b)

\* C19 as stated: after every completed run of main, the number of rows of
\* the SQLite windows_mapping table equals the sum of the lengths of the lists
\* of the JSON windows_mapping object.
C19_AsStated ==
    Done =>
        BagSize(Db.windows_mapping)
            = TotalEntries(Json.windows_mapping, DOMAIN Json.windows_mapping)

\* ---- C20

\* C20 as stated: every transition object written to combined.json carries
\* the fields from_utc, to_utc, offset, abbr and rule_name.
C20_AsStated ==
    mpc \in {"sqlite", "done"} =>
        \A Z \in DOMAIN Json.timezones :
            \A i \in 1..Len(Json.timezones[Z].transitions) :
                {"from_utc", "to_utc", "offset", "abbr", "rule_name"}
                    \subseteq DOMAIN Json.timezones[Z].transitions[i]

\* ---- C21

\* the call of get_latest_tz_data that main made
Downloaded == read.file = "download"

AllStepsOk(env) ==
    env.archive = "ok" /\ env.extract = "ok" /\ env.win = "ok"

\* C21: get_latest_tz_data returns True only if the archive download, the
\* extraction and the download of windowsZones.xml all succeeded, and returns
\* False if any of them failed; when the archive download fails, extraction
\* is not attempted.
C21_AsStated ==
    Downloaded =>
        /\ (~read.result.raised /\ read.result.returned)
              => AllStepsOk(read.data)
        /\ ~AllStepsOk(read.data)
              => (~read.result.raised /\ ~read.result.returned)
        /\ read.data.archive # "ok" => ~read.result.extract_called

\* ---- C22

\* C22: the effect of a malformed Zone record is confined to that line: a
\* continuation line whose most recent Zone record in the file has fewer than
\* 5 fields is appended to no zone's transition list, in particular not to
\* the list of the zone Y whose block came before the malformed record.
C22_AsStated ==
    [][ReadStep =>
        LET raw == Last(tzdata'[fidx])
            k == LastZoneIdx(tzdata[fidx])
        IN  (IsContinuationLine(raw) /\ k > 0
                /\ ~IsValidZoneRecord(tzdata[fidx][k]))
            => /\ DOMAIN zones' = DOMAIN zones
               /\ \A Y \in DOMAIN zones :
                     zones'[Y].transitions = zones[Y].transitions]_vars

\* ---- C23

\* C23: a line whose first field is none of Zone, Rule, Link, read while no
\* current zone is set in its file, changes nothing in the zone table, the
\* rule table and the link map, and is reported by a logged warning.
C23_AsStated ==
    [][ReadStep =>
        LET raw == Last(tzdata'[fidx])
        IN  (IsContinuationLine(raw) /\ current_zone = None)
            => /\ zones' = zones /\ rules' = rules /\ links' = links
               /\ lastlog' = "warning"]_vars

\* ---- C24

\* a record that starts with Link or Rule, of any length
IsLinkOrRule(raw) == IsRecord(raw) /\ Fields(raw)[1] \in {"Link", "Rule"}

\* lines k+1 .. end are Link or Rule records, and there is at least one
OnlyLinksAndRulesAfter(lines, k) ==
    /\ k < Len(lines)
    /\ \A i \in (k + 1)..Len(lines) : IsLinkOrRule(lines[i])

\* C24: Link records and Rule records leave the current zone unchanged: a
\* well-formed continuation line that follows a valid Zone record for Z with
\* only Link or Rule records in between is appended to Z; and a Link record
\* changes no zone (transitions, aliases) when it is read: it is only
\* recorded in the link map.
C24_LinksRulesKeepCurrentZone ==
    [][ReadStep =>
        LET raw == Last(tzdata'[fidx])
            k == LastZoneIdx(tzdata[fidx])
        IN  /\ IsLinkOrRule(raw) =>
                  current_zone' = current_zone /\ zones' = zones
            /\ IsLinkRecord(raw) =>
                  /\ rules' = rules
                  /\ \E i \in 1..Len(links') :
                        links'[i] = [alias |-> Fields(raw)[3],
                                     target |-> Fields(raw)[2]]
            /\ (/\ IsWellFormedContinuation(raw)
                /\ k > 0
                /\ IsValidZoneRecord(tzdata[fidx][k])
                /\ OnlyLinksAndRulesAfter(tzdata[fidx], k))
               => /\ current_zone = Fields(tzdata[fidx][k])[2]
                  /\ AppendsOneTo(Fields(tzdata[fidx][k])[2])
                  /\ OthersKept(Fields(tzdata[fidx][k])[2])]_vars

\* C24 witness: "Zone Y ...", "Link T B", then a continuation line, in one
\* file: Y holds two transitions, no alias is attached yet, the pair is in
\* the link map
C24_Witness ==
    /\ pc = "files" /\ isOpen /\ Len(tzdata[fidx]) = 3
    /\ NamesZone(tzdata[fidx][1], "Y") /\ IsValidZoneRecord(tzdata[fidx][1])
    /\ IsLinkRecord(tzdata[fidx][2])
    /\ IsWellFormedContinuation(tzdata[fidx][3])
    /\ current_zone = "Y"
    /\ DOMAIN zones = {"Y"}
    /\ Len(zones["Y"].transitions) = 2
    /\ zones["Y"].aliases = <<>>
    /\ Len(links) = 1

\* ---- C25

\* position in L of the first Link record that names alias a
FirstLinkOf(L, a) ==
    MinOf({i \in 1..Len(L) : L[i].alias = a})

\* C25: for every zone, the aliases list is ordered by the position at which
\* each alias's Link record was first met (files in the fixed order, lines in
\* file order), with no sorting: every alias comes from a Link record, and an
\* alias whose first Link record is read earlier stands earlier in the list.
C25_AliasesInLinkOrder ==
    Parsed =>
        LET L == LinkRecs
        IN  \A n \in DOMAIN zones :
                LET A == zones[n].aliases
                IN  /\ \A i \in 1..Len(A) : \E k \in 1..Len(L) : L[k].alias = A[i]
                    /\ \A i \in 1..Len(A) : \A j \in (i + 1)..Len(A) :
                          FirstLinkOf(L, A[i]) < FirstLinkOf(L, A[j])

\* C25 witness: "Link Y A", "Link T B", "Link T A" were read: both aliases
\* resolve to T, and A, first met before B, stands first
C25_Witness ==
    /\ pc = "parsed"
    /\ Len(LinkRecs) = 3
    /\ LinkRecs[1].alias = "A" /\ LinkRecs[1].target = "Y"
    /\ LinkRecs[2].alias = "B"
    /\ LinkRecs[3].alias = "A" /\ LinkRecs[3].target = "T"
    /\ DOMAIN zones = {"T"}
    /\ zones["T"].aliases = <<"A", "B">>

\* ---- C26

\* main has merged the metadata and not yet attached the Windows names
Merged == mpc = "names"

\* C26: merge_metadata_with_zones is idempotent: applied to the zone table it
\* has produced, with the same metadata map, it changes nothing (country_code,
\* latitude, longitude, comment and every transition's rule_name stay as the
\* first application left them; a rule_name made absent stays absent).
C26_MergeIdempotent ==
    Merged => merge_metadata_with_zones(zones, metadata) = zones

\* C26 witness: zone Y, parsed with rule "-", has been merged with its
\* zone1970.tab record: the rule_name is absent and the coordinates are split
C26_Witness ==
    /\ Merged
    /\ "Y" \in DOMAIN zones /\ "Y" \in DOMAIN metadata
    /\ zones["Y"].country_code = "KR"
    /\ zones["Y"].latitude = <<"+", "3", "7", "3", "3">>
    /\ zones["Y"].transitions # <<>>
    /\ zones["Y"].transitions[1].rule_name = None

\* ---- C27

\* the transition t, as it is or with its rule_name normalised by the merge
SameTransition(old, new) == new = old \/ new = CleanRuleName(old)

\* C27: zones are never deleted during a run: in every step of file parsing,
\* link resolution, metadata merge and Windows-name attachment, every key of
\* the zone table stays a key, and the transitions a zone holds stay in its
\* list at their positions (the list only grows at its end; the merge only
\* normalises the rule_name of a transition).
C27_ZonesNeverDeleted ==
    [][\A n \in DOMAIN zones :
          /\ n \in DOMAIN zones'
          /\ Len(zones'[n].transitions) >= Len(zones[n].transitions)
          /\ \A i \in 1..Len(zones[n].transitions) :
                SameTransition(zones[n].transitions[i],
                               zones'[n].transitions[i])]_vars

\* C27 witness: the run has parsed zone Y with two transitions, attached
\* alias A, merged the metadata and attached the Windows names
C27_Witness ==
    /\ pc = "named"
    /\ DOMAIN zones = {"Y"}
    /\ Len(zones["Y"].transitions) = 2
    /\ zones["Y"].aliases = <<"A">>
    /\ zones["Y"].country_code = "KR"
    /\ zones["Y"].win_names = <<"W1">>

\* ---- C28

\* a Rule record with all of keyword, name and the seven fields up to SAVE
IsValidRuleRecord(raw) == IsRuleRecord(raw) /\ Len(Fields(raw)) >= 9

\* the records of the valid Rule records of inp named N, in order
RECURSIVE RulesNamed(_, _)
RulesNamed(inp, N) ==
    IF inp = <<>> THEN <<>>
    ELSE LET f == Fields(Head(inp))
         IN  (IF IsValidRuleRecord(Head(inp)) /\ f[2] = N
              THEN <<[from |-> f[3], to |-> f[4], type |-> f[5], in |-> f[6],
                      on |-> f[7], at |-> f[8], save |-> f[9],
                      letter |-> IF Len(f) >= 10 THEN f[10] ELSE ""]>>
              ELSE <<>>) \o RulesNamed(Tail(inp), N)

\* the names of the valid Rule records of inp
RuleNames(inp) ==
    {Fields(inp[i])[2] : i \in {j \in 1..Len(inp) : IsValidRuleRecord(inp[j])}}

\* C28: for every rule name N, rules[N] returned by parse_zone_files is the
\* sequence of records built from the Rule records named N with at least 9
\* fields, in processing order, with from .. save taken from fields 3 to 9
\* and letter from field 10, or "" when there are only 9 fields; N is a key
\* of the rule table exactly when such a record exists.
C28_RulesInOrder ==
    Parsed =>
        LET inp == Input
        IN  /\ DOMAIN rules = RuleNames(inp)
            /\ \A N \in DOMAIN rules : rules[N] = RulesNamed(inp, N)

\* C28 witness: the 10-field and the 9-field Rule record of R were read in
\* this order, with a short Rule record after them
C28_Witness ==
    /\ pc = "parsed"
    /\ Len(Input) = 3
    /\ IsValidRuleRecord(Input[1]) /\ Len(Fields(Input[1])) = 10
    /\ IsValidRuleRecord(Input[2]) /\ Len(Fields(Input[2])) = 9
    /\ IsRuleRecord(Input[3]) /\ ~IsValidRuleRecord(Input[3])
    /\ DOMAIN rules = {"R"}
    /\ Len(rules["R"]) = 2
    /\ rules["R"][1].from = "1948" /\ rules["R"][1].letter = "D"
    /\ rules["R"][2].from = "1949" /\ rules["R"][2].letter = ""

\* ---- C29

MaxOf(S) == CHOOSE i \in S : \A j \in S : j <= i

\* the target of the last Link record of L that names alias a
FinalTarget(L, a) == L[MaxOf({i \in 1..Len(L) : L[i].alias = a})].target

AliasNames(L) == {L[i].alias : i \in 1..Len(L)}

\* C29: after parse_zone_files every alias is in the aliases list of exactly
\* one zone, once: the target of the last Link record that names it; the
\* targets of its earlier Link records do not hold it, and no zone exists on
\* account of a superseded Link record (every key of the zone table is
\* defined by a Zone record or is the final target of some alias).
C29_AliasOnLastTargetOnly ==
    Parsed =>
        LET L == LinkRecs
            N == Names(ZoneDefs)
        IN  /\ \A a \in AliasNames(L) : \A n \in DOMAIN zones :
                  Cardinality({i \in 1..Len(zones[n].aliases) :
                                  zones[n].aliases[i] = a})
                     = IF n = FinalTarget(L, a) THEN 1 ELSE 0
            /\ \A a \in AliasNames(L) : FinalTarget(L, a) \in DOMAIN zones
            /\ \A n \in DOMAIN zones :
                  n \in N \/ \E a \in AliasNames(L) : FinalTarget(L, a) = n

\* C29 witness: "Link Y A" then "Link T A" then "Link T B": A and B are
\* aliases of T, and Y, target of the superseded record, is not a zone
C29_Witness ==
    /\ pc = "parsed"
    /\ Len(Input) = 3 /\ Len(LinkRecs) = 3
    /\ LinkRecs[1].alias = "A" /\ LinkRecs[1].target = "Y"
    /\ LinkRecs[2].alias = "A" /\ LinkRecs[2].target = "T"
    /\ LinkRecs[3].alias = "B"
    /\ DOMAIN zones = {"T"}
    /\ zones["T"].aliases = <<"A", "B">>

\* ---- C30

\* C30: the run_tzbundler entry point exits with status 0 when main completes
\* the whole pipeline without error, and with a non-zero status when the
\* download fails or a pipeline step raises.
C30_AsStated ==
    /\ mpc # "status1"
    /\ (Downloaded /\ (read.result.raised \/ ~read.result.returned))
          => mpc = "exit1"

====
